---- MODULE Spec2Model ----
(***************************************************************************)
(* State-machine model of the resource pool (BrowserPool) and the job      *)
(* scheduler (TaskScheduler) of seo-automation.                            *)
(*                                                                         *)
(* Asynchronous methods are cut at their `await` points: the code between  *)
(* two awaits runs atomically on the event loop and is one action; the     *)
(* position of every call in flight is kept in pc.                          *)
(***************************************************************************)
EXTENDS Integers, Sequences, FiniteSets, TLC

(* ----------------------------- bounds --------------------------------- *)

\* options.maxBrowsers of the pool under analysis
MaxBrowsers == 2

\* number of concurrent callers of the pool
NumCallers == 3

\* number of browsers ever launched (uuid ids are drawn in launch order)
MaxCreated == 4

\* number of environment failures injected (launch, configure, probe)
MaxFaults == 1

\* number of releaseBrowser calls in a run
MaxReleases == 2

\* number of maintenance ticks in a run
MaxTicks == 1

(* ------------------------ program constants --------------------------- *)

\* initialize(): Math.min(maxBrowsers, 5)
InitialCap == 5

\* releaseBrowser / shouldRecycleBrowser: tasksCompleted >= 50
RecycleThreshold == 50

\* startMaintenance: Math.min(3, maxBrowsers)
MinAvailableCap == 3

(* ------------------------------ helpers -------------------------------- *)

Min(a, b) == IF a < b THEN a ELSE b

\* the maintenance timer callback is process 0, callers are 1..NumCallers
Maint == 0

Callers == 1..NumCallers

Procs == {Maint} \cup Callers

BrowserIds == 1..MaxCreated

\* absent wrapper (null / undefined)
NoBrowser == 0

\* Array.prototype.filter(bid => bid !== id)
RECURSIVE FilterOut(_, _)
FilterOut(s, id) ==
  IF s = <<>> THEN <<>>
  ELSE IF Head(s) = id THEN FilterOut(Tail(s), id)
       ELSE <<Head(s)>> \o FilterOut(Tail(s), id)

SeqToSet(s) == {s[i] : i \in 1..Len(s)}

\* number of positions of s that hold x
Occurrences(s, x) == Cardinality({i \in 1..Len(s) : s[i] = x})

\* number of tasks created in a run
MaxTasks == 1

\* number of jobs ever added to the Bull queue in a run
MaxJobs == 2

\* TASK_QUEUE_CONCURRENCY: processors of the Bull queue
NumWorkers == 2

\* config.TASK_RETRY_ATTEMPTS (default)
TASK_RETRY_ATTEMPTS == 3

Workers == 1..NumWorkers

\* task ids are `task-${uuidv4()}`
TaskId(n) == "task-" \o ToString(n)

TaskIds == {TaskId(n) : n \in 1..MaxTasks}

\* Bull numbers the jobs added without a jobId option: "1", "2", ...
JobId(n) == ToString(n)

JobIds == {JobId(n) : n \in 1..MaxJobs}

\* TaskType values processTask dispatches on
TaskTypes == {"search", "target_visit", "organic_browse", "warmup"}

\* task.schedule.type
ScheduleTypes == {"immediate", "scheduled", "distributed", "cron"}

\* message of the error the executor throws in the k-th run of a job
ExecError(k) == "E" \o ToString(k)

VARIABLES
  browsers,          \* keys of the browsers Map
  tasksCompleted,    \* wrapper.tasksCompleted, by id
  inUse,             \* wrapper.inUse, by id
  availableBrowsers, \* availableBrowsers: array of ids
  browserQueue,      \* browserQueue: resolvers of suspended acquirers
  isShuttingDown,    \* isShuttingDown flag
  pc,                \* position of each process inside its pool call
  wr,                \* the local `wrapper` / `id` of the call in flight
  mine,              \* the browser the caller was last returned
  wk,                \* scheduler worker run by the caller (see below)
  db,                \* the tasks collection of the database, by task id
  jobs,              \* the Bull queue: its jobs, by job id
  waitq,             \* the Bull queue: ids of the waiting jobs, in order
  nextTask,          \* number of tasks created so far
  nextJob,           \* the job id counter of the Bull queue
  hist,              \* history: what cancelTask did to a task, by task id
  nextId,            \* next id to hand to a launched browser
  mLast,             \* maintenance: last Map entry visited by the for-of
  mToCreate,         \* maintenance: createBrowser calls left in the top-up
  holders,           \* history: callers a browser was returned to and
                     \* that have not released it since
  ahead,             \* history: callers suspended when this acquire began
  ord,               \* history: ordinal of the caller's acquire call, for
                     \* the calls made before any releaseBrowser
  nAcq,              \* history: acquireBrowser calls so far (saturating)
  nRel,              \* history: releaseBrowser calls so far
  relReturned,       \* history: a releaseBrowser call has returned while
                     \* the caller of ordinal maxBrowsers + 1 was suspended
  nTicks,            \* history: maintenance ticks so far
  faults,            \* history: environment failures so far
  clock,             \* Date.now(), in units of the time grid
  win,               \* the task with a distributed schedule under study
  ret,               \* history: the last call of the scheduler API and
                     \* what it returned or threw
  events,            \* history: the lifecycle events emitted by API calls
                     \* and the failure events emitted by processTask
  bulk,              \* the bulkCreateTasks call in flight
  lastAcq,           \* history: whether the last acquireBrowser call of
                     \* a caller shifted an id without a wrapper off the
                     \* available list, and how its createBrowser ended
  strategy,          \* an ExponentialBackoffStrategy with the delays it
                     \* has given for the attempts of one operation, and
                     \* the backoff delays of one job of the queue
  boot,              \* the start() call of a scheduler process started
                     \* on the database and the queue an earlier one left
  gshut,             \* the GracefulShutdown instance and its run
  limiter,           \* a RateLimiter and the execute() calls on it
  breaker,           \* a CircuitBreakerStrategy and the time
  timed,             \* history: the last scheduleTask call for a task
                     \* with a fixed-delay schedule: scheduledFor, the
                     \* clock it read and the delay it handed to queue.add
  stop,              \* the stop() call of the scheduler: its position
  shut,              \* the shutdown() call of the pool: its position,
                     \* the closeBrowser calls it awaits, those that threw
  session            \* what the leases have left in a browser, by id:
                     \* cookies in the context of the wrapper, pages
                     \* opened with browser.newPage(), each with the
                     \* caller whose lease set it

poolVars == <<browsers, tasksCompleted, inUse, availableBrowsers,
              browserQueue, isShuttingDown, pc, wr, mine, nextId,
              mLast, mToCreate, holders, ahead, ord, nAcq, nRel, relReturned,
              nTicks, faults>>

\* a worker that runs no job
FreeWorker == [phase |-> "free", job |-> "", out |-> "none", err |-> "none"]

\* the scheduler state the pool never touches
schedRest == <<db, jobs, waitq, nextTask, nextJob, hist>>

\* the state neither the pool nor the queue processor touches
\* the state of the browsers themselves
sessVars == <<session>>

\* the shutdown of the components
lifeVars == <<stop, shut>>

\* the helpers that stand beside the pool and the scheduler, and the
\* restart of the process
utilVars == <<strategy, boot, gshut, limiter, breaker>>

otherVars ==
  <<clock, win, ret, events, bulk, sessVars, lifeVars, utilVars, lastAcq, timed>>

vars == <<poolVars, wk, schedRest, otherVars>>

(* ------------------------------ BrowserPool ---------------------------- *)

InitialCount == Min(MaxBrowsers, InitialCap)

\* no browser has completed a task
Fresh == [b \in BrowserIds |-> 0]

\* state after `new BrowserPool(options)` and `await initialize()`, and
\* after the leases that gave the browsers the counters `done` when done
\* is not Fresh; f is the number of environment failures already spent
PoolStart(f, done) ==
  /\ browsers = 1..InitialCount
  /\ tasksCompleted = done
  /\ inUse = [b \in BrowserIds |-> FALSE]
  /\ availableBrowsers = [i \in 1..InitialCount |-> i]
  /\ browserQueue = <<>>
  /\ isShuttingDown = FALSE
  /\ pc = [p \in Procs |-> IF p = Maint THEN "m_idle" ELSE "idle"]
  /\ wr = [p \in Procs |-> NoBrowser]
  /\ mine = [p \in Procs |-> NoBrowser]
  /\ nextId = InitialCount + 1
  /\ mLast = 0
  /\ mToCreate = 0
  /\ holders = [b \in BrowserIds |-> {}]
  /\ ahead = [p \in Procs |-> {}]
  /\ ord = [p \in Procs |-> 0]
  /\ nAcq = 0
  /\ nRel = 0
  /\ relReturned = FALSE
  /\ nTicks = 0
  /\ faults = f

PoolInit == PoolStart(0, Fresh)

Size(brs) == Cardinality(brs)

\* createBrowser calls of callers whose launch is still awaited
PendingCallerLaunches ==
  Cardinality({p \in Callers : pc[p] \in {"acq_create", "rec_create"}})

\* createBrowser calls whose launch is still awaited
PendingLaunches ==
  PendingCallerLaunches
  + (IF pc[Maint] = "rec_create" THEN 1 ELSE 0)
  + (IF pc[Maint] = "m_topup" THEN mToCreate ELSE 0)

\* k more launches stay within the ids of the model
CanLaunch(k) == nextId + PendingLaunches + k - 1 <= MaxCreated

\* shouldRecycleBrowser(wrapper); aged is `Date.now() - createdAt > 3600000`
shouldRecycleBrowser(b, aged) == aged \/ tasksCompleted[b] >= RecycleThreshold

\* getAvailableBrowser(): the wrapper it returns (NoBrowser for null)
getAvailableBrowser ==
  IF availableBrowsers = <<>> THEN NoBrowser
  ELSE IF Head(availableBrowsers) \in browsers THEN Head(availableBrowsers)
       ELSE NoBrowser

\* what the worker does when the pool call it awaits settles with r
\* ("ok" for a return, "err" for a throw): TaskScheduler.execute*Task
\* continues after `await acquireBrowser` / `await releaseBrowser`
afterPoolCall(w, r) ==
  IF w.phase = "ready"
    THEN [w EXCEPT !.phase = IF r = "ok" THEN "executing" ELSE "failing",
                   !.err = IF r = "ok" THEN "none" ELSE "BrowserError"]
  ELSE IF w.phase = "releasing"
    THEN IF r = "err"
           THEN [w EXCEPT !.phase = "failing", !.err = "BrowserError"]
           ELSE [w EXCEPT !.phase =
                            IF w.out = "throw" THEN "failing" ELSE "persist"]
  ELSE w

\* the acquireBrowser call that followed the first maxBrowsers ones, with
\* no release in between, is suspended
Tracked ==
  \E c \in Callers : ord[c] = MaxBrowsers + 1 /\ pc[c] = "acq_wait"

\* a pool call of caller c returns (r = "ok") or throws (r = "err")
Return(c, r, pcBase) ==
  /\ pc' = [pcBase EXCEPT ![c] = "idle"]
  /\ wk' = [wk EXCEPT ![c] = afterPoolCall(wk[c], r)]

\* an acquireBrowser that does not look at isShuttingDown
acquireNeverRefused == FALSE

\* the test acquireBrowser begins with (lines 83-85): it throws
\* BrowserError('BrowserPool is shutting down')
acquireRefused == isShuttingDown

\* acquireBrowser(profile) up to its first suspension (lines 84-99): take
\* the head of the available list, else start createBrowser under the
\* limit, else waitForBrowser
acquireBrowser(c) ==
  /\ pc[c] = "idle"
  /\ nAcq' = IF nRel = 0 THEN Min(nAcq + 1, MaxBrowsers + 1) ELSE nAcq
  /\ ord' = [ord EXCEPT ![c] =
               IF nRel = 0 /\ nAcq < MaxBrowsers + 1 /\ ~isShuttingDown
                 THEN nAcq + 1 ELSE 0]
  /\ IF acquireRefused
       THEN /\ Return(c, "err", pc)
            /\ UNCHANGED <<availableBrowsers, browserQueue, wr, ahead>>
       ELSE /\ ahead' = [ahead EXCEPT ![c] = SeqToSet(browserQueue)]
            /\ availableBrowsers' =
                 IF availableBrowsers = <<>> THEN <<>>
                 ELSE Tail(availableBrowsers)
            /\ wr' = [wr EXCEPT ![c] = getAvailableBrowser]
            /\ UNCHANGED wk
            /\ IF getAvailableBrowser # NoBrowser
                 THEN /\ pc' = [pc EXCEPT ![c] = "acq_conf"]
                      /\ UNCHANGED browserQueue
                 ELSE IF Size(browsers) < MaxBrowsers
                   THEN /\ CanLaunch(1)
                        /\ pc' = [pc EXCEPT ![c] = "acq_create"]
                        /\ UNCHANGED browserQueue
                   ELSE /\ browserQueue' = Append(browserQueue, c)
                        /\ pc' = [pc EXCEPT ![c] = "acq_wait"]
  /\ lastAcq' = [lastAcq EXCEPT ![c] =
                   [stale |-> /\ ~isShuttingDown
                              /\ availableBrowsers # <<>>
                              /\ getAvailableBrowser = NoBrowser
                              /\ Size(browsers) < MaxBrowsers,
                    out |-> IF acquireRefused THEN "ShuttingDown"
                            ELSE "none"]]
  /\ UNCHANGED <<browsers, tasksCompleted, inUse, isShuttingDown, mine,
                 nextId, mLast, mToCreate, holders, nRel, relReturned,
                 nTicks, faults, schedRest, clock, win, ret, events, bulk,
                 sessVars, lifeVars, utilVars, timed>>

\* the tail of createBrowser after the launch succeeded (lines 209-226)
createBrowserRegister(id) ==
  /\ browsers' = browsers \cup {id}
  /\ tasksCompleted' = [tasksCompleted EXCEPT ![id] = 0]
  /\ inUse' = [inUse EXCEPT ![id] = FALSE]
  /\ availableBrowsers' = Append(availableBrowsers, id)
  /\ nextId' = nextId + 1

\* a createBrowser that has registered its wrapper when the error is thrown
acquireCreatedLeavesBrowser(c) ==
  /\ pc[c] = "acq_create"
  /\ \/ /\ createBrowserRegister(nextId)
        /\ wr' = [wr EXCEPT ![c] = nextId]
        /\ pc' = [pc EXCEPT ![c] = "acq_conf"]
        /\ lastAcq' = [lastAcq EXCEPT ![c].out = "created"]
        /\ UNCHANGED <<wk, faults, ahead, ord>>
     \/ /\ faults < MaxFaults
        /\ faults' = faults + 1
        /\ createBrowserRegister(nextId)
        /\ Return(c, "err", pc)
        /\ lastAcq' = [lastAcq EXCEPT ![c].out = "BrowserError"]
        /\ ahead' = [ahead EXCEPT ![c] = {}]
        /\ ord' = [ord EXCEPT ![c] = 0]
        /\ UNCHANGED wr
  /\ UNCHANGED <<browserQueue, isShuttingDown, mine, mLast, mToCreate,
                 holders, nAcq, nRel, relReturned, nTicks, schedRest, clock,
                 win, ret, events, bulk, sessVars, lifeVars, utilVars, timed>>

\* acquireBrowser: its createBrowser(profile) call settles (line 94)
acquireCreated(c) ==
  /\ pc[c] = "acq_create"
  /\ \/ /\ createBrowserRegister(nextId)
        /\ wr' = [wr EXCEPT ![c] = nextId]
        /\ pc' = [pc EXCEPT ![c] = "acq_conf"]
        /\ lastAcq' = [lastAcq EXCEPT ![c].out = "created"]
        /\ UNCHANGED <<wk, faults, ahead, ord>>
     \/ \* the launch fails: createBrowser throws a BrowserError
        \* (lines 228-231), which acquireBrowser lets through
        /\ faults < MaxFaults
        /\ faults' = faults + 1
        /\ Return(c, "err", pc)
        /\ lastAcq' = [lastAcq EXCEPT ![c].out = "BrowserError"]
        /\ ahead' = [ahead EXCEPT ![c] = {}]
        /\ ord' = [ord EXCEPT ![c] = 0]
        /\ UNCHANGED <<browsers, tasksCompleted, inUse, availableBrowsers,
                       nextId, wr>>
  /\ UNCHANGED <<browserQueue, isShuttingDown, mine, mLast, mToCreate,
                 holders, nAcq, nRel, relReturned, nTicks, schedRest, clock,
                 win, ret, events, bulk, sessVars, lifeVars, utilVars, timed>>

\* acquireBrowser: configureBrowserForProfile settles and the browser is
\* returned (lines 102-110)
acquireConfigured(c) ==
  /\ pc[c] = "acq_conf"
  /\ \/ /\ inUse' = [inUse EXCEPT ![wr[c]] = TRUE]
        /\ holders' = [holders EXCEPT ![wr[c]] = @ \cup {c}]
        /\ mine' = [mine EXCEPT ![c] = wr[c]]
        /\ Return(c, "ok", pc)
        /\ UNCHANGED faults
     \/ /\ faults < MaxFaults
        /\ faults' = faults + 1
        /\ Return(c, "err", pc)
        /\ UNCHANGED <<inUse, holders, mine>>
  /\ wr' = [wr EXCEPT ![c] = NoBrowser]
  /\ ahead' = [ahead EXCEPT ![c] = {}]
  /\ ord' = [ord EXCEPT ![c] = 0]
  /\ UNCHANGED <<browsers, tasksCompleted, availableBrowsers, browserQueue,
                 isShuttingDown, nextId, mLast, mToCreate, nAcq, nRel,
                 relReturned, nTicks, schedRest, otherVars>>

\* what clearBrowserState(wrapper) leaves of the session state of a browser
\* (lines 343-364): context.clearCookies() empties the cookies of the
\* context of the wrapper; clearPermissions, the closing of pages and the
\* goto act on that context too, and a page opened with browser.newPage()
\* lives in a context of its own
clearBrowserState(left) == {m \in left : m[1] # "cookies"}

\* releaseBrowser(browser), up to the await of clearBrowserState
\* (lines 114-125); b is the browser the caller passes. The commands of
\* clearBrowserState reach the browser before those of any later holder
releaseBrowser(c, b) ==
  /\ pc[c] = "idle"
  /\ b # NoBrowser
  /\ nRel' = Min(nRel + 1, MaxReleases)
  /\ nAcq' = MaxBrowsers + 1
  /\ holders' = [holders EXCEPT ![b] = @ \ {c}]
  /\ mine' = [mine EXCEPT ![c] = IF mine[c] = b THEN NoBrowser ELSE mine[c]]
  /\ IF b \in browsers
       THEN /\ inUse' = [inUse EXCEPT ![b] = FALSE]
            /\ tasksCompleted' = [tasksCompleted EXCEPT ![b] = @ + 1]
            /\ wr' = [wr EXCEPT ![c] = b]
            /\ pc' = [pc EXCEPT ![c] = "rel_clear"]
            /\ session' = [session EXCEPT ![b] = clearBrowserState(@)]
            /\ UNCHANGED <<relReturned, wk>>
       ELSE \* findWrapperByBrowser found nothing: warn and return
            /\ relReturned' = Tracked
            /\ Return(c, "ok", pc)
            /\ UNCHANGED <<inUse, tasksCompleted, wr, session>>
  /\ UNCHANGED <<browsers, availableBrowsers, browserQueue, isShuttingDown,
                 nextId, mLast, mToCreate, ahead, ord, nTicks, faults,
                 schedRest, clock, win, ret, events, bulk, lifeVars, utilVars, lastAcq, timed>>

\* the for-of over the browsers Map resumes after entry `last`: entries in
\* use are skipped synchronously, the next idle one is probed; after the
\* last entry the top-up is decided (lines 431-454)
maintenanceResume(last, brs, inU, avail, nid) ==
  LET cand == {b \in brs : b > last /\ ~inU[b]}
      next == CHOOSE b \in cand : \A o \in cand : b <= o
      minAvailable == Min(MinAvailableCap, MaxBrowsers)
      toCreate == minAvailable - Len(avail)
  IN IF cand # {}
       THEN /\ pc' = [pc EXCEPT ![Maint] = "m_probe"]
            /\ wr' = [wr EXCEPT ![Maint] = next]
            /\ mLast' = next
            /\ mToCreate' = 0
       ELSE IF Len(avail) < minAvailable /\ Size(brs) < MaxBrowsers
         THEN /\ nid + PendingCallerLaunches + toCreate - 1 <= MaxCreated
              /\ pc' = [pc EXCEPT ![Maint] = "m_topup"]
              /\ wr' = [wr EXCEPT ![Maint] = NoBrowser]
              /\ mLast' = 0
              /\ mToCreate' = toCreate
         ELSE /\ pc' = [pc EXCEPT ![Maint] = "m_idle"]
              /\ wr' = [wr EXCEPT ![Maint] = NoBrowser]
              /\ mLast' = 0
              /\ mToCreate' = 0

\* recycleBrowser is over: releaseBrowser returns to its caller, the
\* maintenance loop goes on with the next Map entry
recycleReturn(p, brs, inU, avail, nid) ==
  IF p = Maint
    THEN /\ maintenanceResume(mLast, brs, inU, avail, nid)
         /\ UNCHANGED <<wk, relReturned>>
    ELSE /\ Return(p, "ok", pc)
         /\ wr' = [wr EXCEPT ![p] = NoBrowser]
         /\ relReturned' = Tracked
         /\ UNCHANGED <<mLast, mToCreate>>

\* recycleBrowser after closeBrowser (lines 389-392): start the
\* replacement if not shutting down and under the limit
recycleReplace(p, brs, avail) ==
  IF ~isShuttingDown /\ Size(brs) < MaxBrowsers
    THEN /\ CanLaunch(1)
         /\ pc' = [pc EXCEPT ![p] = "rec_create"]
         /\ UNCHANGED <<wr, wk, mLast, mToCreate, relReturned>>
    ELSE recycleReturn(p, brs, inUse, avail, nextId)

\* recycleBrowser(id) up to its first suspension (lines 385-387, 367-371)
recycleBrowser(p, id) ==
  IF id \in browsers
    THEN /\ pc' = [pc EXCEPT ![p] = "rec_close"]
         /\ wr' = [wr EXCEPT ![p] = id]
         /\ UNCHANGED <<wk, mLast, mToCreate, relReturned>>
    ELSE recycleReplace(p, browsers, availableBrowsers)

\* releaseBrowser after clearBrowserState (lines 127-140); aged tells
\* whether the browser was launched more than an hour ago
releaseCleared(c, aged) ==
  /\ pc[c] = "rel_clear"
  /\   IF tasksCompleted[wr[c]] >= RecycleThreshold
          \/ shouldRecycleBrowser(wr[c], aged)
         THEN /\ recycleBrowser(c, wr[c])
              /\ UNCHANGED <<availableBrowsers, browserQueue, ahead>>
         ELSE /\ availableBrowsers' = Append(availableBrowsers, wr[c])
              /\ IF browserQueue # <<>>
                   THEN /\ browserQueue' = Tail(browserQueue)
                        /\ wr' = [wr EXCEPT ![Head(browserQueue)] = wr[c],
                                            ![c] = NoBrowser]
                        /\ Return(c, "ok",
                                  [pc EXCEPT ![Head(browserQueue)] = "acq_conf"])
                        /\ ahead' = [p \in Procs |->
                                       ahead[p] \ {Head(browserQueue)}]
                   ELSE /\ UNCHANGED <<browserQueue, ahead>>
                        /\ wr' = [wr EXCEPT ![c] = NoBrowser]
                        /\ Return(c, "ok", pc)
              /\ relReturned' = Tracked
              /\ UNCHANGED <<mLast, mToCreate>>
  /\ UNCHANGED <<browsers, tasksCompleted, inUse, isShuttingDown, mine,
                 nextId, holders, ord, nAcq, nRel, nTicks, faults,
                 schedRest, otherVars>>

\* closeBrowser after the context and the browser are closed
\* (lines 377-381), and the recycleBrowser that called it going on
closeBrowserDone(p) ==
  /\ pc[p] = "rec_close"
  /\ browsers' = browsers \ {wr[p]}
  /\ availableBrowsers' = FilterOut(availableBrowsers, wr[p])
  /\ recycleReplace(p, browsers', availableBrowsers')
  /\ UNCHANGED <<tasksCompleted, inUse, browserQueue, isShuttingDown, mine,
                 nextId, holders, ahead, ord, nAcq, nRel, nTicks, faults,
                 schedRest, otherVars>>

\* recycleBrowser: the createBrowser() of the replacement settles (line 391)
recycleCreated(p) ==
  /\ pc[p] = "rec_create"
  /\ \/ /\ createBrowserRegister(nextId)
        /\ recycleReturn(p, browsers', inUse', availableBrowsers',
                         nextId + 1)
        /\ UNCHANGED faults
     \/ \* the launch fails: BrowserError out of releaseBrowser, or caught
        \* by the try of the maintenance callback, which ends the tick
        /\ faults < MaxFaults
        /\ faults' = faults + 1
        /\ IF p = Maint
             THEN /\ pc' = [pc EXCEPT ![p] = "m_idle"]
                  /\ mLast' = 0
                  /\ UNCHANGED <<wk, relReturned, mToCreate>>
             ELSE /\ Return(p, "err", pc)
                  /\ relReturned' = Tracked
                  /\ UNCHANGED <<mLast, mToCreate>>
        /\ wr' = [wr EXCEPT ![p] = NoBrowser]
        /\ UNCHANGED <<browsers, tasksCompleted, inUse, availableBrowsers,
                       nextId>>
  /\ UNCHANGED <<browserQueue, isShuttingDown, mine, holders, ahead, ord,
                 nAcq, nRel, nTicks, schedRest, otherVars>>

\* the setInterval callback of startMaintenance fires (line 428)
maintenanceTick ==
  /\ pc[Maint] = "m_idle"
  /\ ~isShuttingDown
  /\ nTicks < MaxTicks
  /\ nTicks' = nTicks + 1
  /\ maintenanceResume(0, browsers, inUse, availableBrowsers, nextId)
  /\ UNCHANGED <<browsers, tasksCompleted, inUse, availableBrowsers,
                 browserQueue, isShuttingDown, mine, wk, nextId, holders,
                 ahead, ord, nAcq, nRel, relReturned, faults, schedRest, otherVars>>

\* the health probe of the entry under the cursor settles (lines 433-441)
maintenanceProbed ==
  /\ pc[Maint] = "m_probe"
  /\ \/ /\ wr[Maint] \in browsers
        /\ maintenanceResume(mLast, browsers, inUse, availableBrowsers,
                             nextId)
        /\ UNCHANGED <<faults, wk, relReturned>>
     \/ /\ \/ wr[Maint] \notin browsers /\ UNCHANGED faults
           \/ /\ wr[Maint] \in browsers
              /\ faults < MaxFaults
              /\ faults' = faults + 1
        /\ recycleBrowser(Maint, wr[Maint])
  /\ UNCHANGED <<browsers, tasksCompleted, inUse, availableBrowsers,
                 browserQueue, isShuttingDown, mine, nextId, holders, ahead,
                 ord, nAcq, nRel, nTicks, schedRest, otherVars>>

\* one createBrowser() of the top-up loop settles (lines 451-453)
maintenanceTopUp ==
  /\ pc[Maint] = "m_topup"
  /\ \/ /\ createBrowserRegister(nextId)
        /\ mToCreate' = mToCreate - 1
        /\ pc' = [pc EXCEPT ![Maint] =
                    IF mToCreate = 1 THEN "m_idle" ELSE "m_topup"]
        /\ UNCHANGED faults
     \/ /\ faults < MaxFaults
        /\ faults' = faults + 1
        /\ mToCreate' = 0
        /\ pc' = [pc EXCEPT ![Maint] = "m_idle"]
        /\ UNCHANGED <<browsers, tasksCompleted, inUse, availableBrowsers,
                       nextId>>
  /\ UNCHANGED <<browserQueue, isShuttingDown, wr, mine, wk, mLast, holders,
                 ahead, ord, nAcq, nRel, relReturned, nTicks, schedRest, otherVars>>

(* ----------------------------- TaskScheduler --------------------------- *)

\* no document with that id in the tasks collection
NoTask == [status |-> "absent", type |-> "none", sched |-> "none",
           attempts |-> 0, error |-> "none"]

\* no job with that id in the queue
NoJob == [task |-> "", state |-> "none", attemptsMade |-> 0,
          failedReason |-> "none", repeat |-> FALSE, runs |-> 0]

NoHist == [cp |-> FALSE, cr |-> "no"]

\* no task with a distributed schedule has been submitted
NoWindow == [phase |-> "none", start |-> 0, end |-> 0, due |-> 0, began |-> 0]

\* no call of the scheduler API has been made
NoCall == [n |-> 0, op |-> "none", id |-> "", invalid |-> FALSE,
           noProfile |-> FALSE, was |-> "none", result |-> "none"]

\* no bulkCreateTasks call is in flight
NoBulk == [phase |-> "idle", tasks |-> <<>>, i |-> 0, results |-> <<>>,
           createdTasks |-> <<>>]

\* the clock at start-up, nothing submitted
\* the caller has made no acquireBrowser call that had to create
NoAcquire == [stale |-> FALSE, out |-> "none"]

\* scheduleTask has not been called for a task scheduled for a time
NoTimed == [phase |-> "none", task |-> "", scheduledFor |-> 0, now |-> 0,
            delay |-> 0]

\* no ExponentialBackoffStrategy has been constructed
NoStrategy == [phase |-> "none", maxAttempts |-> 0, baseDelay |-> 0,
               maxDelay |-> 0, delays |-> <<>>, jobDelays |-> <<>>]

\* the process started first is up
NoRestart == [phase |-> "up", todo |-> {}, n |-> 0]

\* no handler is registered with the GracefulShutdown instance
NoGracefulShutdown ==
  [handlers |-> <<>>, isShuttingDown |-> FALSE, phase |-> "none", i |-> 0,
   cur |-> "", active |-> {}, ran |-> <<>>, runs |-> 0, calls |-> 0]

\* the callers of RateLimiter.execute
NumLimiterCallers == 4
LimiterCallers == 1..NumLimiterCallers

\* no RateLimiter has been constructed
NoLimiter == [maxConcurrent |-> 0, running |-> 0, queue |-> <<>>,
              at |-> [c \in LimiterCallers |-> "out"]]

\* no CircuitBreakerStrategy has been constructed
NoBreaker == [threshold |-> 0, timeout |-> 0, failures |-> 0,
              lastFailureTime |-> 0, state |-> "none", ret |-> TRUE,
              held |-> FALSE]

\* shutdown() has not been called
NoShutdown == [phase |-> "none", closing |-> {}, failed |-> {}]

OtherInit ==
  /\ clock = 0
  /\ win = NoWindow
  /\ ret = NoCall
  /\ events = {}
  /\ bulk = NoBulk
  /\ session = [b \in BrowserIds |-> {}]
  /\ shut = NoShutdown
  /\ stop = "none"
  /\ lastAcq = [c \in Callers |-> NoAcquire]
  /\ timed = NoTimed
  /\ strategy = NoStrategy
  /\ boot = NoRestart
  /\ gshut = NoGracefulShutdown
  /\ limiter = NoLimiter
  /\ breaker = NoBreaker

\* state after `new TaskScheduler(options)` and `await start()` on an
\* empty database and an empty queue
SchedInit ==
  /\ wk = [c \in Callers |-> FreeWorker]
  /\ db = [t \in TaskIds |-> NoTask]
  /\ jobs = [j \in JobIds |-> NoJob]
  /\ waitq = <<>>
  /\ nextTask = 0
  /\ nextJob = 0
  /\ hist = [t \in TaskIds |-> NoHist]
  /\ OtherInit


\* Queue.getJob(id) of Bull: the job with that id, NoJob for null
getJob(id) == IF id \in JobIds THEN jobs[id] ELSE NoJob

\* Queue.add(task, opts) of Bull: a new job under the next id, delayed
\* when opts.delay > 0 or opts.repeat is given, waiting otherwise
queueAdd(jbs, t, delayed, repeat) ==
  /\ JobId(nextJob + 1) \in DOMAIN jobs
  /\ nextJob' = nextJob + 1
  /\ jobs' = [jbs EXCEPT ![JobId(nextJob + 1)] =
                [task |-> t,
                 state |-> IF delayed \/ repeat THEN "delayed" ELSE "waiting",
                 attemptsMade |-> 0, failedReason |-> "none",
                 repeat |-> repeat, runs |-> 0]]
  /\ waitq' = IF delayed \/ repeat THEN waitq
              ELSE Append(waitq, JobId(nextJob + 1))

\* scheduleTask that leaves an immediate task to the periodic pass
scheduleTaskNotImmediate(t, sched, later) ==
  IF sched = "immediate" THEN UNCHANGED <<jobs, waitq, nextJob>>
  ELSE IF sched = "cron" THEN queueAdd(jobs, t, FALSE, TRUE)
  ELSE queueAdd(jobs, t, later, FALSE)

\* scheduleTask(task) (lines 222-256); later tells whether the delay
\* computed from the clock (scheduledFor - now, or the sampled point of
\* the window - now clamped at 0) is positive
scheduleTask(t, sched, later) ==
  IF sched = "immediate" THEN queueAdd(jobs, t, FALSE, FALSE)
  ELSE IF sched = "cron" THEN queueAdd(jobs, t, FALSE, TRUE)
  ELSE queueAdd(jobs, t, later, FALSE)

\* createTask from insertOne on (lines 100-125): the record and its job
insertTask(type, sched) ==
  /\ TaskId(nextTask + 1) \in DOMAIN db
  /\ nextTask' = nextTask + 1
  /\ db' = [db EXCEPT ![TaskId(nextTask + 1)] =
              [status |-> "pending", type |-> type, sched |-> sched,
               attempts |-> 0, error |-> "none"]]
  /\ \E later \in BOOLEAN :
       /\ (sched \in {"immediate", "cron"} => ~later)
       /\ scheduleTask(TaskId(nextTask + 1), sched, later)

\* createTask(taskData) for a valid configuration (lines 95-137)
createTask(type, sched) ==
  /\ insertTask(type, sched)
  /\ UNCHANGED <<otherVars, poolVars, wk, hist>>

\* a worker is processing a job of task t
PickedUp(t) ==
  \E c \in Workers : wk[c].phase # "free" /\ jobs[wk[c].job].task = t

\* cancelTask (lines 156-166): the update of the record that matches the
\* id and the removal of the job getJob finds
cancelStored(t) ==
  /\ db' = [db EXCEPT ![t].status = "cancelled"]
  /\ hist' = [hist EXCEPT
                ![t].cp = @ \/ (db[t].status = "pending" /\ ~PickedUp(t)),
                ![t].cr = IF db[t].status = "running" THEN "pending" ELSE @]
  /\ IF getJob(t).state \in {"waiting", "delayed", "failed"}
       THEN \* job.remove()
            /\ jobs' = [jobs EXCEPT ![t] = NoJob]
            /\ waitq' = FilterOut(waitq, t)
       ELSE UNCHANGED <<jobs, waitq>>

\* cancelTask(taskId) of a stored task (lines 155-170)
cancelTask(t) ==
  /\ db[t].status # "absent"
  /\ cancelStored(t)
  /\ UNCHANGED <<otherVars, poolVars, wk, nextTask, nextJob>>

\* retryTask from the reset on (lines 182-192)
retryFailed(t) ==
  /\ db' = [db EXCEPT ![t].status = "pending", ![t].attempts = 0]
  /\ \E later \in BOOLEAN :
       /\ (db[t].sched \in {"immediate", "cron"} => ~later)
       /\ scheduleTask(t, db[t].sched, later)

\* retryTask(taskId) on a failed task (lines 172-195)
retryTask(t) ==
  /\ db[t].status = "failed"
  /\ retryFailed(t)
  /\ UNCHANGED <<otherVars, poolVars, wk, nextTask, hist>>

\* Bull moves a delayed job to the wait list when its delay is over
delayElapsed(j) ==
  /\ jobs[j].state = "delayed"
  /\ jobs' = [jobs EXCEPT ![j].state = "waiting"]
  /\ waitq' = Append(waitq, j)
  /\ UNCHANGED <<otherVars, poolVars, wk, db, nextTask, nextJob, hist>>

\* a free processor of queue.process takes the next waiting job
\* (lines 61-63), unless the queue is paused (line 83); for a repeatable
\* job Bull adds the next repetition
takeJob(c) ==
  /\ wk[c].phase = "free"
  /\ stop \in {"none", "pausing"}
  /\ waitq # <<>>
  /\ LET j == Head(waitq)
         jbs == [jobs EXCEPT ![j].state = "active", ![j].runs = @ + 1]
     IN /\ wk' = [wk EXCEPT ![c] = [phase |-> "start", job |-> j,
                                    out |-> "none", err |-> "none"]]
        /\ IF jobs[j].repeat /\ JobId(nextJob + 1) \in DOMAIN jobs
             THEN /\ nextJob' = nextJob + 1
                  /\ jobs' = [jbs EXCEPT ![JobId(nextJob + 1)] =
                                [jobs[j] EXCEPT !.state = "delayed"]]
             ELSE /\ jobs' = jbs
                  /\ UNCHANGED nextJob
        /\ waitq' = Tail(waitq)
  /\ UNCHANGED <<otherVars, poolVars, db, nextTask, hist>>

\* a status write of the worker hides an earlier cancellation
workerWrote(h) == [h EXCEPT !.cr = IF @ = "pending" THEN "overwritten" ELSE @]

\* updateTaskStatus(taskId, status, error) (lines 535-551)
updateTaskStatus(t, status, error) ==
  /\ db' = [db EXCEPT ![t].status = status,
                      ![t].error = IF status = "failed" THEN error ELSE @]
  /\ hist' = [hist EXCEPT ![t] = workerWrote(@)]

\* updateTaskResult that leaves a cancelled task alone
updateTaskResultUnlessCancelled(t, success) ==
  /\ db' = [db EXCEPT ![t].status =
              IF @ = "cancelled" THEN @
              ELSE IF success THEN "completed" ELSE "failed"]
  /\ hist' = hist

\* updateTaskResult(taskId, result) (lines 553-564)
updateTaskResult(t, success) ==
  /\ db' = [db EXCEPT ![t].status = IF success THEN "completed" ELSE "failed"]
  /\ hist' = [hist EXCEPT ![t] = workerWrote(@)]

\* processTask: updateTaskStatus(RUNNING) (line 270)
processStart(c) ==
  /\ wk[c].phase = "start"
  /\ updateTaskStatus(jobs[wk[c].job].task, "running", "none")
  /\ wk' = [wk EXCEPT ![c].phase = "ready"]
  /\ UNCHANGED <<otherVars, poolVars, jobs, waitq, nextTask, nextJob>>

\* processTask: the profile is missing or unhealthy (lines 273-281)
processNoProfile(c) ==
  /\ wk[c].phase = "ready"
  /\ pc[c] = "idle"
  /\ faults < MaxFaults
  /\ faults' = faults + 1
  /\ wk' = [wk EXCEPT ![c].phase = "failing", ![c].err = "ProfileError"]
  /\ UNCHANGED <<browsers, tasksCompleted, inUse, availableBrowsers,
                 browserQueue, isShuttingDown, pc, wr, mine, nextId, mLast,
                 mToCreate, holders, ahead, ord, nAcq, nRel, relReturned,
                 nTicks, schedRest, otherVars>>

\* execute*Task: the call of acquireBrowser / getSearchEngine
\* (lines 356, 389, 440, 480)
workerAcquire(c) ==
  /\ wk[c].phase = "ready"
  /\ acquireBrowser(c)

\* the outcomes the executor of a task type can have: only a search can
\* return success = false (lines 367-368, 420-421, 466-467, 493-494)
Outcomes(type) ==
  IF type = "search" THEN {"ok", "notfound", "throw"} ELSE {"ok", "throw"}

\* execute*Task: the body of the try ends; a search closes its
\* SearchEngine (line 384, BehaviorEngine.ts 474-478), the other types
\* go on to releaseBrowser (lines 435, 475, 506)
executorDone(c) ==
  /\ wk[c].phase = "executing"
  /\ \E o \in Outcomes(db[jobs[wk[c].job].task].type) :
       /\ wk' = [wk EXCEPT
                   ![c].out = o,
                   ![c].err = IF o = "throw"
                                THEN ExecError(jobs[wk[c].job].runs)
                                ELSE "none",
                   ![c].phase =
                     IF db[jobs[wk[c].job].task].type = "search"
                       THEN IF o = "throw" THEN "failing" ELSE "persist"
                       ELSE "releasing"]
  /\ UNCHANGED <<poolVars, schedRest, otherVars>>

\* execute*Task: the releaseBrowser(browser) of the finally block
workerRelease(c) ==
  /\ wk[c].phase = "releasing"
  /\ releaseBrowser(c, mine[c])

\* processTask: updateTaskResult and the return of the result
\* (lines 307-328); Bull removes the completed job (removeOnComplete)
processPersist(c) ==
  /\ wk[c].phase = "persist"
  /\ updateTaskResult(jobs[wk[c].job].task, wk[c].out = "ok")
  /\ jobs' = [jobs EXCEPT ![wk[c].job] = NoJob]
  /\ wk' = [wk EXCEPT ![c] = FreeWorker]
  /\ UNCHANGED <<otherVars, poolVars, waitq, nextTask, nextJob>>

\* the test of the catch block with the bound off by one
lastAttemptOffByOne(j) == jobs[j].attemptsMade >= TASK_RETRY_ATTEMPTS

\* the test of the catch block of processTask (line 339)
lastAttempt(j) == jobs[j].attemptsMade >= TASK_RETRY_ATTEMPTS - 1

\* processTask: the catch block (lines 330-352); Bull counts the failed
\* attempt and delays the job for the backoff, or fails it for good
processFailed(c) ==
  /\ wk[c].phase = "failing"
  /\ LET j == wk[c].job
     IN /\ IF lastAttempt(j)
             THEN updateTaskStatus(jobs[j].task, "failed", wk[c].err)
             ELSE UNCHANGED <<db, hist>>
        /\ jobs' = [jobs EXCEPT
                      ![j].attemptsMade = @ + 1,
                      ![j].failedReason = wk[c].err,
                      ![j].state =
                        IF jobs[j].attemptsMade + 1 < TASK_RETRY_ATTEMPTS
                          THEN "delayed" ELSE "failed"]
  /\ events' = events \cup {<<"task:failed", jobs[wk[c].job].task>>}
  /\ wk' = [wk EXCEPT ![c] = FreeWorker]
  /\ UNCHANGED <<poolVars, sessVars, lifeVars, utilVars, lastAcq, timed, waitq,
                 nextTask, nextJob, clock, win, ret, bulk>>

SchedStep ==
  \/ \E type \in TaskTypes, sched \in ScheduleTypes : createTask(type, sched)
  \/ \E t \in TaskIds : cancelTask(t)
  \/ \E t \in TaskIds : retryTask(t)
  \/ \E j \in JobIds : delayElapsed(j)
  \/ \E c \in Workers : takeJob(c)
  \/ \E c \in Workers : processStart(c)
  \/ \E c \in Workers : processNoProfile(c)
  \/ \E c \in Workers : workerAcquire(c)
  \/ \E c \in Workers : executorDone(c)
  \/ \E c \in Workers : workerRelease(c)
  \/ \E c \in Workers : processPersist(c)
  \/ \E c \in Workers : processFailed(c)

(* ------------------- the pool driven by its callers -------------------- *)

\* a caller that holds no browser asks for one
CallAcquire(c) == mine[c] = NoBrowser /\ acquireBrowser(c)

\* a caller gives back the browser it was returned
CallRelease(c) == nRel < MaxReleases /\ releaseBrowser(c, mine[c])

\* the steps of the pool calls in flight
PoolCallStep ==
  \/ \E c \in Callers : acquireCreated(c)
  \/ \E c \in Callers : acquireConfigured(c)
  \/ \E c \in Callers, aged \in BOOLEAN : releaseCleared(c, aged)
  \/ \E p \in Procs : closeBrowserDone(p)
  \/ \E p \in Procs : recycleCreated(p)

\* the steps of the maintenance timer
MaintenanceStep ==
  \/ maintenanceTick
  \/ maintenanceProbed
  \/ maintenanceTopUp

PoolNext ==
  \/ \E c \in Callers : CallAcquire(c)
  \/ \E c \in Callers : CallRelease(c)
  \/ PoolCallStep
  \/ MaintenanceStep

PoolOnlyInit == PoolInit /\ SchedInit

SpecPool == PoolOnlyInit /\ [][PoolNext]_vars

(* --------------- the scheduler with the pool it works on --------------- *)

Init == PoolInit /\ SchedInit

\* the pool calls of the workers settle; the runs considered are shorter
\* than the hour after which a browser is recycled for its age
WorkerPoolStep ==
  \/ \E c \in Workers : acquireConfigured(c)
  \/ \E c \in Workers : releaseCleared(c, FALSE)

Next == SchedStep \/ WorkerPoolStep

Spec == Init /\ [][Next]_vars

(* ------------------------- claims on the pool -------------------------- *)

\* a browser counts as handed to a caller from the moment acquireBrowser
\* took it until the releaseBrowser for it has put it back or recycled it
Handed(b) ==
  \/ holders[b] # {}
  \/ \E c \in Callers : pc[c] \in {"acq_conf", "rel_clear"} /\ wr[c] = b

\* closeBrowser is under way for the browser
Closing(b) == \E p \in Procs : pc[p] = "rec_close" /\ wr[p] = b

\* C1: no browser is held by two callers at once: a browser returned by
\* acquireBrowser to one caller and not yet released by it is returned to
\* no other caller.
C1_NoDoubleLease == \A b \in BrowserIds : Cardinality(holders[b]) <= 1

\* C2: the browsers map never holds more than maxBrowsers browsers.
C2_SizeAtMostMax == Size(browsers) <= MaxBrowsers

\* C3: with no release so far the first maxBrowsers acquireBrowser calls
\* never suspend and the next one suspends; that caller stays suspended
\* until a releaseBrowser occurs, and is served by that release.
C3_FirstMThenBlock ==
  \A c \in Callers :
    /\ (ord[c] \in 1..MaxBrowsers) => pc[c] # "acq_wait"
    /\ (ord[c] = MaxBrowsers + 1 /\ nRel = 0) => pc[c] = "acq_wait"
    /\ (ord[c] = MaxBrowsers + 1 /\ pc[c] = "acq_wait") => ~relReturned

\* C4: the available list holds exactly the ids of the pool's browsers
\* that are neither handed to a caller nor being closed, each at most once.
C4_AvailableExact ==
  /\ \A b \in BrowserIds : Occurrences(availableBrowsers, b) <= 1
  /\ SeqToSet(availableBrowsers)
       = {b \in browsers : ~Handed(b) /\ ~Closing(b)}

\* C5: a caller that called acquireBrowser while another caller was
\* suspended on the wait list is not given a browser before that caller.
C5_NoOvertaking ==
  \A c \in Callers : pc[c] = "acq_conf" => ahead[c] = {}

(* ----------------------- claims on the scheduler ----------------------- *)

\* the browsers caller c was returned and has not released
Leased(c) == {b \in BrowserIds : c \in holders[b]}

\* C6: whatever the type of the job and the outcome of its execution, a
\* worker that has finished processTask holds no browser of the pool: the
\* browser its execution acquired has been passed to releaseBrowser.
C6_ReleasedWhenDone ==
  \A c \in Workers : wk[c].phase = "free" => Leased(c) = {}

\* C7: a task cancelled while PENDING and not yet picked up by a worker
\* never reaches RUNNING afterwards and is executed by no worker.
C7_CancelledPendingNeverRuns ==
  \A t \in TaskIds : hist[t].cp => db[t].status # "running" /\ ~PickedUp(t)

\* a job of task t is still waiting, delayed for a retry or being processed
Unfinished(t) ==
  \E j \in JobIds :
    jobs[j].task = t /\ jobs[j].state \in {"waiting", "delayed", "active"}

\* the CANCELLED written over RUNNING is only there while a job of the
\* task is still to finish
C8_CancelNotFinal ==
  \A t \in TaskIds : hist[t].cr = "pending" => Unfinished(t)

\* the step that ends the processing of a job with a result persists the
\* status the execution produced, cancelled or not
C8_OutcomePersisted ==
  \A c \in Workers :
    (wk[c].phase = "persist" /\ wk'[c].phase = "free") =>
      db'[jobs[wk[c].job].task].status =
        (IF wk[c].out = "ok" THEN "completed" ELSE "failed")

\* the step after the last throw of a job persists FAILED, cancelled or
\* not
C8_FailurePersisted ==
  \A c \in Workers :
    (wk[c].phase = "failing" /\ jobs'[wk[c].job].state = "failed") =>
      db'[jobs[wk[c].job].task].status = "failed"

\* C8: cancelTask on a RUNNING task does not end its execution: a job of
\* the task stays in progress while the CANCELLED it wrote is the
\* persisted status, and the end of the execution persists the status the
\* execution produced (COMPLETED or FAILED) over it.
C8_CancelRunningKeepsOutcome ==
  /\ []C8_CancelNotFinal
  /\ [][C8_OutcomePersisted /\ C8_FailurePersisted]_vars

\* a cancelTask hit a RUNNING task and the execution then completed
C8_Witness ==
  \E t \in TaskIds :
    hist[t].cr = "overwritten" /\ db[t].status = "completed"

\* no job is run more than TASK_RETRY_ATTEMPTS times, and one that Bull
\* has given up on was run exactly that often
C9_RunsExact ==
  \A j \in JobIds :
    /\ jobs[j].runs <= TASK_RETRY_ATTEMPTS
    /\ jobs[j].state = "failed" => jobs[j].runs = TASK_RETRY_ATTEMPTS

\* the step in which Bull gives a job up leaves the task FAILED with the
\* message of the error of that last run
C9_LastErrorPersisted ==
  \A c \in Workers :
    (wk[c].phase = "failing" /\ jobs'[wk[c].job].state = "failed") =>
      /\ db'[jobs[wk[c].job].task].status = "failed"
      /\ db'[jobs[wk[c].job].task].error = wk[c].err
      /\ jobs'[wk[c].job].failedReason = wk[c].err

StartsJobOf(t) ==
  \E c \in Workers :
    wk[c].phase = "free" /\ wk'[c].phase = "start" /\ jobs[wk'[c].job].task = t

\* C10: a persisted status COMPLETED or FAILED never changes, except for
\* FAILED to PENDING by retryTask, and no worker starts a job of a task
\* that is in such a status.
C10_TerminalStable ==
  [][\A t \in TaskIds :
       db[t].status \in {"completed", "failed"} =>
         /\ \/ db'[t].status = db[t].status
            \/ db[t].status = "failed" /\ db'[t].status = "pending"
         /\ ~StartsJobOf(t)]_vars

(* ------------------- claims on the status of a task -------------------- *)

\* the status changes the state machine of a job allows; the first pair is
\* the insertion of the record by createTask
AllowedTransitions ==
  {<<"absent", "pending">>, <<"pending", "scheduled">>,
   <<"scheduled", "running">>, <<"running", "completed">>,
   <<"running", "failed">>, <<"pending", "cancelled">>,
   <<"scheduled", "cancelled">>, <<"failed", "pending">>}

\* C11: every change of the persisted status of a task is one of
\* PENDING->SCHEDULED, SCHEDULED->RUNNING, RUNNING->COMPLETED,
\* RUNNING->FAILED, PENDING->CANCELLED, SCHEDULED->CANCELLED and
\* FAILED->PENDING; no other change of status occurs.
C11_OnlyAllowedTransitions ==
  [][\A t \in TaskIds :
       db'[t].status # db[t].status =>
         <<db[t].status, db'[t].status>> \in AllowedTransitions]_vars

(* ------------- a batch of immediate jobs on a small pool --------------- *)

\* number of immediate jobs submitted in the batch
LoadJobs == 2

LoadTaskIds == {TaskId(n) : n \in 1..LoadJobs}

LoadJobIds == {JobId(n) : n \in 1..LoadJobs}

\* state after start() and LoadJobs createTask calls with an immediate
\* schedule, of any types, before a worker has taken a job
LoadInit ==
  /\ wk = [c \in Callers |-> FreeWorker]
  /\ \E types \in [1..LoadJobs -> TaskTypes] :
       db = [t \in LoadTaskIds |->
               [status |-> "pending",
                type |-> types[CHOOSE n \in 1..LoadJobs : TaskId(n) = t],
                sched |-> "immediate", attempts |-> 0, error |-> "none"]]
  /\ jobs = [j \in LoadJobIds |->
               [task |-> TaskId(CHOOSE n \in 1..LoadJobs : JobId(n) = j),
                state |-> "waiting", attemptsMade |-> 0,
                failedReason |-> "none", repeat |-> FALSE, runs |-> 0]]
  /\ waitq = [n \in 1..LoadJobs |-> JobId(n)]
  /\ nextTask = LoadJobs
  /\ nextJob = LoadJobs
  /\ hist = [t \in LoadTaskIds |-> NoHist]
  /\ OtherInit

\* the workers process the batch; nothing else is submitted, cancelled or
\* retried, the profiles are healthy and the browsers launch and configure
LoadNext ==
  \/ \E j \in LoadJobIds : delayElapsed(j)
  \/ \E c \in Workers : takeJob(c)
  \/ \E c \in Workers : processStart(c)
  \/ \E c \in Workers : workerAcquire(c)
  \/ \E c \in Workers : executorDone(c)
  \/ \E c \in Workers : workerRelease(c)
  \/ \E c \in Workers : processPersist(c)
  \/ \E c \in Workers : processFailed(c)
  \/ WorkerPoolStep

\* every call in flight settles and a free worker takes a waiting job:
\* some step is taken as long as one is possible
\* a pool whose launches all succeed from now on, and the batch submitted
InitLoad == PoolStart(MaxFaults, Fresh) /\ LoadInit

SpecLoad == InitLoad /\ [][LoadNext]_vars /\ WF_vars(LoadNext)

\* the jobs a worker is processing
Executing == {j \in DOMAIN jobs : jobs[j].state = "active"}

\* every task of the batch is COMPLETED or FAILED
BatchSettled ==
  \A t \in DOMAIN db : db[t].status \in {"completed", "failed"}

\* C12: with maxBrowsers = 2 and two workers, of the immediate jobs of the
\* batch at most two execute at any instant and eventually every one is
\* COMPLETED or FAILED for good; none stays PENDING or RUNNING.
C12_BatchSettles ==
  /\ [](Cardinality(Executing) <= NumWorkers)
  /\ <>[]BatchSettled

(* ---------------- immediate tasks and the workers alone ---------------- *)

\* the steps of the workers and of the queue
WorkStep ==
  \/ \E j \in JobIds : delayElapsed(j)
  \/ \E c \in Workers : takeJob(c)
  \/ \E c \in Workers : processStart(c)
  \/ \E c \in Workers : processNoProfile(c)
  \/ \E c \in Workers : workerAcquire(c)
  \/ \E c \in Workers : executorDone(c)
  \/ \E c \in Workers : workerRelease(c)
  \/ \E c \in Workers : processPersist(c)
  \/ \E c \in Workers : processFailed(c)
  \/ WorkerPoolStep

\* createTask with an immediate schedule and the workers; the timer of
\* startScheduledTaskProcessor never fires
ImmediateNext ==
  \/ \E type \in TaskTypes : createTask(type, "immediate")
  \/ WorkStep

\* the workers and the queue take a step as long as one is possible
SpecImmediate == Init /\ [][ImmediateNext]_vars /\ WF_vars(WorkStep)

\* a job of task t is on the wait list of the queue
Queued(t) ==
  \E i \in 1..Len(waitq) :
    jobs[waitq[i]].task = t /\ jobs[waitq[i]].state = "waiting"

\* the createTask step leaves a job of the new task on the wait list
C13_CreateAdmits ==
  \A t \in TaskIds :
    (db[t].status = "absent" /\ db'[t].status # "absent") =>
      (db'[t].status = "pending" /\ Queued(t)')

\* C13: createTask puts the job of an immediate task on the wait list of
\* the queue itself, and with the workers alone, no periodic pass being
\* run, the task reaches RUNNING.
C13_ImmediateRunsWithoutPass ==
  /\ [][C13_CreateAdmits]_vars
  /\ \A t \in TaskIds :
       (db[t].status = "pending") ~> (db[t].status = "running")

\* an immediate task has been taken by a worker and is RUNNING
C13_Witness ==
  \E t \in TaskIds :
    /\ db[t].sched = "immediate"
    /\ db[t].status = "running"
    /\ PickedUp(t)

(* ------------------- the distributed schedule in time ------------------ *)

\* the last instant of the time grid
MaxTime == 4

Max(a, b) == IF a > b THEN a ELSE b

\* scheduleTask, case 'distributed' (lines 238-246): the delay handed to
\* queue.add; r is Math.random() * windowSize on the time grid, so
\* 0 <= r < windowSize
distributedDelay(start, end, r, now) ==
  LET scheduledTime == start + r
  IN Max(0, scheduledTime - now)

\* createTask at the current time of a task with the distributed window
\* {start, end}, start < end
submitDistributed(start, end, r) ==
  /\ win.phase = "none"
  /\ win' = [phase |-> "delayed", start |-> start, end |-> end,
             due |-> clock + distributedDelay(start, end, r, clock),
             began |-> 0]
  /\ UNCHANGED <<poolVars, sessVars, lifeVars, utilVars, lastAcq, timed, wk, schedRest, clock, ret, events, bulk>>

\* time passes
tick ==
  /\ clock < MaxTime
  /\ clock' = clock + 1
  /\ UNCHANGED <<poolVars, sessVars, lifeVars, utilVars, lastAcq, timed, wk, schedRest, win, ret, events, bulk>>

\* the delay of the job is over and a worker, free now or only some time
\* later, begins to execute it
windowJobBegins ==
  /\ win.phase = "delayed"
  /\ clock >= win.due
  /\ win' = [win EXCEPT !.phase = "started", !.began = clock]
  /\ UNCHANGED <<poolVars, sessVars, lifeVars, utilVars, lastAcq, timed, wk, schedRest, clock, ret, events, bulk>>

WindowNext ==
  \/ \E start \in 0..(MaxTime - 2) :
       \E end \in (start + 1)..(MaxTime - 1) :
         \E r \in 0..(end - start - 1) : submitDistributed(start, end, r)
  \/ tick
  \/ windowJobBegins

SpecWindow == Init /\ [][WindowNext]_vars

\* C14: the job of a task with the distributed window {start, end},
\* start < end, begins to execute at a time t with start <= t < end.
C14_BeginsInsideWindow ==
  win.phase = "started" => (win.start <= win.began /\ win.began < win.end)

(* ------------------ browsers close to the recycle age ------------------ *)

\* the counters of browsers that have been leased and released without
\* recycling up to one or two tasks below the threshold
WornCounters ==
  {done \in [BrowserIds -> {0, RecycleThreshold - 2, RecycleThreshold - 1}] :
     \A b \in BrowserIds : done[b] # 0 <=> b <= InitialCount}

\* the pool with worn browsers, its callers and no maintenance tick
WornNext ==
  \/ \E c \in Callers : CallAcquire(c)
  \/ \E c \in Callers : CallRelease(c)
  \/ PoolCallStep

\* a pool whose browsers have been released some number of times
InitWorn == (\E done \in WornCounters : PoolStart(0, done)) /\ SchedInit

SpecWorn == InitWorn /\ [][WornNext]_vars

\* a releaseBrowser call has found the counter of b at the threshold
Condemned(b) == tasksCompleted[b] >= RecycleThreshold

\* caller c obtains browser b in this step, from the available list or from
\* the wait list
Obtains(c, b) ==
  /\ pc[c] # "acq_conf"
  /\ pc'[c] = "acq_conf"
  /\ wr'[c] = b

\* a condemned browser is in the map or on the available list only while
\* the release that condemned it is still clearing or closing it
C15_ClosedByRelease ==
  \A b \in BrowserIds :
    (Condemned(b) /\ (b \in browsers \/ b \in SeqToSet(availableBrowsers)))
      => \E c \in Callers : pc[c] \in {"rel_clear", "rec_close"} /\ wr[c] = b

\* C15: a releaseBrowser call that finds the counter of the browser at the
\* threshold closes it and removes it from the map and the available list,
\* and from that release on no acquirer obtains the browser.
C15_RecycledAtThreshold ==
  /\ []C15_ClosedByRelease
  /\ [][\A c \in Callers : \A b \in BrowserIds :
          Condemned(b) => ~Obtains(c, b)]_vars

(* --------------------- the calls of the scheduler API ------------------ *)

\* number of API calls in a run
MaxCalls == 3

\* an id that matches no stored task
UnknownId == "task-0"

\* the taskData of the createTask calls: whether config passes
\* validateTaskConfig, and the profileId given ("" for none)
ApiTaskData ==
  [type : TaskTypes, configValid : BOOLEAN, profileId : {"", "profile-1"}]

\* createTask looks for a profile itself (line 113)
needsProfile(d) == d.profileId = "" /\ d.type # "warmup"

\* the status stored under an id, "absent" when no record matches
statusOf(id) == IF id \in DOMAIN db THEN db[id].status ELSE "absent"

\* createTask without the test of the result of selectBestProfile
createTaskOutcomeNoProfileCheck(d, suitable) ==
  IF ~d.configValid THEN "ValidationError" ELSE "ok"

\* createTask up to insertOne (lines 96-119): "ok", or the error thrown by
\* validateTaskConfig or for the null that selectBestProfile returns when
\* no healthy profile is suitable
createTaskOutcome(d, suitable) ==
  IF ~d.configValid THEN "ValidationError"
  ELSE IF needsProfile(d) /\ ~suitable THEN "NoHealthyProfile"
  ELSE "ok"

\* a call createTask(taskData) with an immediate schedule (lines 95-137)
createTaskCall(d, suitable) ==
  /\ ret.n < MaxCalls
  /\ IF createTaskOutcome(d, suitable) = "ok"
       THEN /\ insertTask(d.type, "immediate")
            /\ events' = events \cup {<<"task:created", TaskId(nextTask + 1)>>}
       ELSE UNCHANGED <<db, jobs, waitq, nextTask, nextJob, events>>
  /\ ret' = [n |-> ret.n + 1, op |-> "createTask",
             id |-> IF createTaskOutcome(d, suitable) = "ok"
                      THEN TaskId(nextTask + 1) ELSE "",
             invalid |-> ~d.configValid,
             noProfile |-> needsProfile(d) /\ ~suitable,
             was |-> "none",
             result |-> createTaskOutcome(d, suitable)]
  /\ UNCHANGED <<poolVars, sessVars, lifeVars, utilVars, lastAcq, timed, wk, hist, clock, win, bulk>>

\* a call cancelTask(id) (lines 155-170)
cancelTaskCall(id) ==
  /\ ret.n < MaxCalls
  /\ IF statusOf(id) # "absent"
       THEN cancelStored(id)
       ELSE UNCHANGED <<db, hist, jobs, waitq>>
  /\ events' = events \cup {<<"task:cancelled", id>>}
  /\ ret' = [n |-> ret.n + 1, op |-> "cancelTask", id |-> id,
             invalid |-> FALSE, noProfile |-> FALSE,
             was |-> statusOf(id), result |-> "ok"]
  /\ UNCHANGED <<poolVars, sessVars, lifeVars, utilVars, lastAcq, timed, wk, nextTask, nextJob, clock, win, bulk>>

\* a retryTask that also takes a cancelled task back
retryTaskOutcomeAcceptsCancelled(status) ==
  IF status = "absent" THEN "NotFound"
  ELSE IF status \notin {"failed", "cancelled"} THEN "NotFailed"
  ELSE "ok"

\* what retryTask answers to the record it finds (lines 173-180)
retryTaskOutcome(status) ==
  IF status = "absent" THEN "NotFound"
  ELSE IF status # "failed" THEN "NotFailed"
  ELSE "ok"

\* a call retryTask(id) (lines 172-195)
retryTaskCall(id) ==
  /\ ret.n < MaxCalls
  /\ IF retryTaskOutcome(statusOf(id)) = "ok"
       THEN retryFailed(id)
       ELSE UNCHANGED <<db, jobs, waitq, nextJob>>
  /\ ret' = [n |-> ret.n + 1, op |-> "retryTask", id |-> id,
             invalid |-> FALSE, noProfile |-> FALSE,
             was |-> statusOf(id),
             result |-> retryTaskOutcome(statusOf(id))]
  /\ UNCHANGED <<poolVars, sessVars, lifeVars, utilVars, lastAcq, timed, wk, nextTask, hist, events, clock, win, bulk>>

ApiNext ==
  \/ \E d \in ApiTaskData, suitable \in BOOLEAN : createTaskCall(d, suitable)
  \/ \E id \in TaskIds \cup {UnknownId} : cancelTaskCall(id)
  \/ \E id \in TaskIds \cup {UnknownId} : retryTaskCall(id)
  \/ WorkStep

SpecApi == Init /\ [][ApiNext]_vars

\* this step is a call of operation op
Calls(op) == ret'.n # ret.n /\ ret'.op = op

\* C16: a createTask call whose configuration is invalid, or that needs a
\* profile when no healthy profile is suitable, throws and leaves the
\* tasks collection and the queue unchanged: nothing is inserted, nothing
\* enqueued, no event emitted.
C16_FailedCreateChangesNothing ==
  [][(Calls("createTask") /\ (ret'.invalid \/ ret'.noProfile)) =>
       /\ ret'.result # "ok"
       /\ UNCHANGED <<db, jobs, waitq, nextTask, nextJob, events>>]_vars

\* a createTask call has been rejected for the lack of a healthy profile
C16_Witness ==
  /\ ret.op = "createTask"
  /\ ret.noProfile
  /\ ret.result = "NoHealthyProfile"

(* --------------------------- bulkCreateTasks --------------------------- *)

\* number of specs in the list passed to bulkCreateTasks
MaxBulk == 3

BulkTaskIds == {TaskId(n) : n \in 1..MaxBulk}

BulkJobIds == {JobId(n) : n \in 1..MaxBulk}

\* the specs of a bulk call: taskData, and whether selectBestProfile finds
\* a profile when the createTask of that spec asks
BulkTaskData ==
  [type : {"search", "warmup"}, configValid : BOOLEAN, profileId : {""},
   suitable : BOOLEAN]

\* state after start() on an empty database, no call made
BulkInit ==
  /\ wk = [c \in Callers |-> FreeWorker]
  /\ db = [t \in BulkTaskIds |-> NoTask]
  /\ jobs = [j \in BulkJobIds |-> NoJob]
  /\ waitq = <<>>
  /\ nextTask = 0
  /\ nextJob = 0
  /\ hist = [t \in BulkTaskIds |-> NoHist]
  /\ OtherInit

\* bulkCreateTasks(tasks) is called (lines 139-142)
bulkCreateTasks(tasks) ==
  /\ bulk.phase = "idle"
  /\ bulk' = [phase |-> "loop", tasks |-> tasks, i |-> 1,
              results |-> <<>>, createdTasks |-> <<>>]
  /\ UNCHANGED <<poolVars, sessVars, lifeVars, utilVars, lastAcq, timed, wk, schedRest, clock, win, ret, events>>

\* a loop body without the try/catch: the first error ends the call
bulkCreateStepAbortOnError ==
  /\ bulk.phase = "loop"
  /\ bulk.i <= Len(bulk.tasks)
  /\ LET d == bulk.tasks[bulk.i]
         ok == createTaskOutcome(d, d.suitable) = "ok"
     IN /\ IF ok
             THEN /\ insertTask(d.type, "immediate")
                  /\ events' =
                       events \cup {<<"task:created", TaskId(nextTask + 1)>>}
             ELSE UNCHANGED <<db, jobs, waitq, nextTask, nextJob, events>>
        /\ bulk' = [bulk EXCEPT
                      !.phase = IF ok THEN "loop" ELSE "returned",
                      !.i = @ + 1,
                      !.results =
                        Append(@, IF ok THEN TaskId(nextTask + 1) ELSE ""),
                      !.createdTasks =
                        IF ok THEN Append(@, TaskId(nextTask + 1)) ELSE @]
  /\ UNCHANGED <<poolVars, sessVars, lifeVars, utilVars, lastAcq, timed, wk, hist, clock, win, ret>>

\* one turn of the for-of loop (lines 142-149): the createTask of the
\* next spec; its task is pushed, its error caught and logged
bulkCreateStep ==
  /\ bulk.phase = "loop"
  /\ bulk.i <= Len(bulk.tasks)
  /\ LET d == bulk.tasks[bulk.i]
         ok == createTaskOutcome(d, d.suitable) = "ok"
     IN /\ IF ok
             THEN /\ insertTask(d.type, "immediate")
                  /\ events' =
                       events \cup {<<"task:created", TaskId(nextTask + 1)>>}
             ELSE UNCHANGED <<db, jobs, waitq, nextTask, nextJob, events>>
        /\ bulk' = [bulk EXCEPT
                      !.i = @ + 1,
                      !.results =
                        Append(@, IF ok THEN TaskId(nextTask + 1) ELSE ""),
                      !.createdTasks =
                        IF ok THEN Append(@, TaskId(nextTask + 1)) ELSE @]
  /\ UNCHANGED <<poolVars, sessVars, lifeVars, utilVars, lastAcq, timed, wk, hist, clock, win, ret>>

\* the loop is over: createdTasks is returned (lines 151-152)
bulkReturn ==
  /\ bulk.phase = "loop"
  /\ bulk.i > Len(bulk.tasks)
  /\ bulk' = [bulk EXCEPT !.phase = "returned"]
  /\ UNCHANGED <<poolVars, sessVars, lifeVars, utilVars, lastAcq, timed, wk, schedRest, clock, win, ret, events>>

BulkNext ==
  \/ \E tasks \in [1..MaxBulk -> BulkTaskData] : bulkCreateTasks(tasks)
  \/ bulkCreateStep
  \/ bulkReturn

InitBulk == PoolInit /\ BulkInit

SpecBulk == InitBulk /\ [][BulkNext]_vars

\* the createTask of spec d succeeds
Creatable(d) == d.configValid /\ (needsProfile(d) => d.suitable)

\* the positions of the list whose spec can be created
CreatablePositions(tasks) == {k \in 1..Len(tasks) : Creatable(tasks[k])}

\* C17: when bulkCreateTasks returns, every spec of the list has been
\* submitted; the specs whose createTask succeeds have a stored task and a
\* job each, and the returned list holds exactly these tasks, in the order
\* of the input; the failing specs have none.
C17_BulkIndependent ==
  bulk.phase = "returned" =>
    /\ Len(bulk.results) = Len(bulk.tasks)
    /\ \A k \in 1..Len(bulk.tasks) :
         IF Creatable(bulk.tasks[k])
           THEN /\ bulk.results[k] \in BulkTaskIds
                /\ db[bulk.results[k]].status = "pending"
                /\ db[bulk.results[k]].type = bulk.tasks[k].type
                /\ Queued(bulk.results[k])
           ELSE bulk.results[k] = ""
    /\ bulk.createdTasks = SelectSeq(bulk.results, LAMBDA r : r # "")
    /\ Len(bulk.createdTasks) = Cardinality(CreatablePositions(bulk.tasks))
    /\ Cardinality({t \in BulkTaskIds : db[t].status # "absent"})
         = Len(bulk.createdTasks)

\* a bulk call has returned whose second spec failed and whose first and
\* third specs were created
C17_Witness ==
  /\ bulk.phase = "returned"
  /\ ~Creatable(bulk.tasks[2])
  /\ Len(bulk.createdTasks) = 2


\* the statuses of a stored task other than FAILED (types/index.ts)
NotFailedStatuses ==
  {"pending", "scheduled", "running", "completed", "cancelled"}

\* C18: a retryTask call on a task whose stored status is not FAILED
\* fails with an error and changes neither the task records nor the
\* queue; a retryTask call on a FAILED task sets its status to PENDING and
\* its attempts to 0 and adds a new job for it to the queue.
C18_RetryOnlyFromFailed ==
  [][Calls("retryTask") =>
       /\ \A s \in NotFailedStatuses : retryTaskOutcome(s) = "NotFailed"
       /\ ret'.was \in NotFailedStatuses =>
            /\ ret'.result = "NotFailed"
            /\ UNCHANGED <<db, jobs, waitq, nextJob>>
       /\ ret'.was = "failed" =>
            /\ ret'.result = "ok"
            /\ db'[ret'.id].status = "pending"
            /\ db'[ret'.id].attempts = 0
            /\ nextJob' = nextJob + 1
            /\ jobs'[JobId(nextJob')].task = ret'.id
            /\ jobs'[JobId(nextJob')].state \in {"waiting", "delayed"}]_vars

\* retryTask has just refused a task that had completed
C18_Witness ==
  /\ ret.op = "retryTask"
  /\ ret.was = "completed"
  /\ ret.result = "NotFailed"

\* retryTask has just taken back a failed task
C18_Retried ==
  /\ ret.op = "retryTask"
  /\ ret.was = "failed"
  /\ ret.result = "ok"
  /\ db[ret.id].status = "pending"


\* C19: a cancelTask or retryTask call whose id matches no stored task
\* reports an error to the caller and emits no event for that id.
C19_UnknownIdRejected ==
  [][(Calls("cancelTask") \/ Calls("retryTask")) /\ ret'.was = "absent" =>
       /\ ret'.result # "ok"
       /\ UNCHANGED events]_vars

(* ------------------- what a lease leaves in a browser ------------------ *)

\* configureBrowserForProfile: the cookies of the profile of caller c are
\* added to the context of the wrapper (lines 331-334)
configureCookies(c) ==
  /\ pc[c] = "acq_conf"
  /\ wr[c] \in browsers
  /\ <<"cookies", c>> \notin session[wr[c]]
  /\ session' = [session EXCEPT ![wr[c]] = @ \cup {<<"cookies", c>>}]
  /\ UNCHANGED <<poolVars, wk, schedRest, clock, win, ret, events, bulk, lifeVars, utilVars, lastAcq, timed>>

\* the holder works with the browser it was returned: browser.newPage()
\* (TaskScheduler.ts:392, 443, 483) opens a page in a new context of the
\* browser; the task leaves it open
newPage(c) ==
  /\ pc[c] = "idle"
  /\ mine[c] \in browsers
  /\ <<"page", c>> \notin session[mine[c]]
  /\ session' = [session EXCEPT ![mine[c]] = @ \cup {<<"page", c>>}]
  /\ UNCHANGED <<poolVars, wk, schedRest, clock, win, ret, events, bulk, lifeVars, utilVars, lastAcq, timed>>

SessionNext ==
  \/ \E c \in Callers : CallAcquire(c)
  \/ \E c \in Callers : CallRelease(c)
  \/ PoolCallStep
  \/ \E c \in Callers : configureCookies(c)
  \/ \E c \in Callers : newPage(c)

\* a pool whose launches all succeed, no browser used yet
InitSession == PoolStart(MaxFaults, Fresh) /\ SchedInit

SpecSession == InitSession /\ [][SessionNext]_vars

\* acquireBrowser returns browser b to caller c in this step
Handover(c, b) == mine[c] # b /\ mine'[c] = b

\* caller o holds browser b, or is being handed it
Current(o, b) == o \in holders[b] \/ (pc[o] = "acq_conf" /\ wr[o] = b)

\* what caller c may find on browser b when it is returned to it without
\* any earlier lease showing: the cookies of its own profile, and what the
\* callers that have b at this moment have set
OwnOrCurrent(c, b) ==
  {<<"cookies", c>>} \cup {m \in session[b] : Current(m[2], b)}

\* C20: when acquireBrowser returns a browser, nothing that a lease
\* already released has set on it (cookies, pages) is still present.
C20_NoLeakedSession ==
  [][\A c \in Callers, b \in BrowserIds :
       Handover(c, b) => session'[b] \subseteq OwnOrCurrent(c, b)]_vars

(* ------------------------- BrowserPool.shutdown ------------------------ *)

\* shutdown() up to its await (lines 63-77): the flag is set, the interval
\* is cleared, closeBrowser is called for every wrapper of the map, and
\* each call runs up to its first await (line 371)
shutdown ==
  /\ shut.phase = "none"
  /\ isShuttingDown' = TRUE
  /\ shut' = [phase |-> "closing", closing |-> browsers, failed |-> {}]
  /\ UNCHANGED <<browsers, tasksCompleted, inUse, availableBrowsers,
                 browserQueue, pc, wr, mine, nextId, mLast, mToCreate,
                 holders, ahead, ord, nAcq, nRel, relReturned, nTicks,
                 faults, wk, schedRest, clock, win, ret, events, bulk,
                 sessVars, utilVars, stop, lastAcq, timed>>

\* a closeBrowser(id) of shutdown goes on after its closes settled or
\* threw (lines 370-381): the error is logged, the wrapper is removed
closeBrowser(id, threw) ==
  /\ shut.phase = "closing"
  /\ id \in shut.closing
  /\ browsers' = browsers \ {id}
  /\ availableBrowsers' = FilterOut(availableBrowsers, id)
  /\ shut' = [shut EXCEPT !.closing = @ \ {id},
                          !.failed = IF threw THEN @ \cup {id} ELSE @]
  /\ UNCHANGED <<tasksCompleted, inUse, browserQueue, isShuttingDown, pc, wr,
                 mine, nextId, mLast, mToCreate, holders, ahead, ord, nAcq,
                 nRel, relReturned, nTicks, faults, wk, schedRest, clock,
                 win, ret, events, bulk, sessVars, utilVars, stop, lastAcq, timed>>

\* Promise.all settles: shutdown() returns (lines 77-80)
shutdownDone ==
  /\ shut.phase = "closing"
  /\ shut.closing = {}
  /\ shut' = [shut EXCEPT !.phase = "done"]
  /\ UNCHANGED <<poolVars, wk, schedRest, clock, win, ret, events, bulk,
                 sessVars, utilVars, stop, lastAcq, timed>>

ShutdownStep ==
  \/ shutdown
  \/ \E id \in BrowserIds, threw \in BOOLEAN : closeBrowser(id, threw)
  \/ shutdownDone

\* the callers at work while the pool is shut down
ShutdownCallers == 1..2

\* the runs considered are shorter than the hour after which a browser is
\* recycled for its age
ShutdownNext ==
  \/ \E c \in ShutdownCallers : CallAcquire(c)
  \/ \E c \in ShutdownCallers : CallRelease(c)
  \/ \E c \in ShutdownCallers : acquireCreated(c)
  \/ \E c \in ShutdownCallers : acquireConfigured(c)
  \/ \E c \in ShutdownCallers : releaseCleared(c, FALSE)
  \/ \E p \in Procs : closeBrowserDone(p)
  \/ \E p \in Procs : recycleCreated(p)
  \/ MaintenanceStep
  \/ ShutdownStep

InitShutdown == PoolInit /\ SchedInit

SpecShutdown == InitShutdown /\ [][ShutdownNext]_vars

\* C21: once shutdown() has returned, the map of browsers and the
\* available list are empty, and they stay empty.
C21_EmptyAfterShutdown ==
  shut.phase = "done" => browsers = {} /\ availableBrowsers = <<>>

(* -------------------------- TaskScheduler.stop ------------------------- *)

\* createTask(taskData) with an immediate schedule on a scheduler that may
\* be stopping (lines 95-137): createTask does not look at isRunning; on
\* the closed queue the add of scheduleTask rejects after insertOne
createTaskAnyTime(type) ==
  /\ IF stop \in {"closing", "stopped"}
       THEN /\ TaskId(nextTask + 1) \in DOMAIN db
            /\ nextTask' = nextTask + 1
            /\ db' = [db EXCEPT ![TaskId(nextTask + 1)] =
                        [status |-> "pending", type |-> type,
                         sched |-> "immediate", attempts |-> 0,
                         error |-> "none"]]
            /\ UNCHANGED <<jobs, waitq, nextJob>>
       ELSE insertTask(type, "immediate")
  /\ UNCHANGED <<otherVars, poolVars, wk, hist>>

\* stop() is called on the running scheduler (lines 75-83)
stopCall ==
  /\ stop = "none"
  /\ stop' = "pausing"
  /\ UNCHANGED <<poolVars, wk, schedRest, clock, win, ret, events, bulk,
                 sessVars, utilVars, shut, lastAcq, timed>>

\* queue.pause() settles (line 83)
stopPaused ==
  /\ stop = "pausing"
  /\ stop' = "draining"
  /\ UNCHANGED <<poolVars, wk, schedRest, clock, win, ret, events, bulk,
                 sessVars, utilVars, shut, lastAcq, timed>>

\* queue.whenCurrentJobsFinished() settles (line 86): no processor is at
\* work on a job
stopDrained ==
  /\ stop = "draining"
  /\ \A c \in Workers : wk[c].phase = "free"
  /\ stop' = "closing"
  /\ UNCHANGED <<poolVars, wk, schedRest, clock, win, ret, events, bulk,
                 sessVars, utilVars, shut, lastAcq, timed>>

\* queue.close() settles and stop() returns (lines 89-92)
stopClosed ==
  /\ stop = "closing"
  /\ stop' = "stopped"
  /\ UNCHANGED <<poolVars, wk, schedRest, clock, win, ret, events, bulk,
                 sessVars, utilVars, shut, lastAcq, timed>>

\* the shutdown handler of the system (index.ts:92-134): taskScheduler
\* .stop() is awaited, then browserPool.shutdown()
shutdownHandler ==
  \/ stopCall
  \/ stopPaused
  \/ stopDrained
  \/ stopClosed
  \/ stop = "stopped" /\ shutdown
  \/ \E id \in BrowserIds, threw \in BOOLEAN : closeBrowser(id, threw)
  \/ shutdownDone

StopNext ==
  \/ \E type \in TaskTypes : createTaskAnyTime(type)
  \/ WorkStep
  \/ shutdownHandler

SpecStop == Init /\ [][StopNext]_vars

\* a job is added to the queue in this step
Admits == nextJob' # nextJob

\* a processor takes a job in this step
Starts == \E c \in Workers : wk[c].phase = "free" /\ wk'[c].phase # "free"

\* C22: after stop() has been called no job is added to the queue and no
\* job starts executing; stop() has returned only when no job is
\* executing; the pool is shut down only after stop() has returned.
C22_StopAdmitsNothing ==
  /\ [][stop # "none" => ~Admits /\ ~Starts]_vars
  /\ [](stop = "stopped" => \A c \in Workers : wk[c].phase = "free")
  /\ [](shut.phase # "none" => stop = "stopped")

(* ------------------------- wake-up of the waiters ---------------------- *)

\* the releaseBrowser call of caller c returns or throws in this step
ReleaseEnds(c) ==
  /\ pc[c] \in {"rel_clear", "rec_close", "rec_create"}
  /\ pc'[c] = "idle"

\* the caller at the head of the wait list is resumed with a browser of
\* the pool in this step
HeadResumed ==
  /\ pc'[Head(browserQueue)] = "acq_conf"
  /\ wr'[Head(browserQueue)] \in browsers'
  /\ browserQueue' = Tail(browserQueue)

\* C23: whenever a releaseBrowser call ends while callers are suspended on
\* the wait list, the caller that has waited longest is resumed with a
\* browser, the released one or its replacement.
C23_NoLostWakeup ==
  [][\A c \in Callers :
       (ReleaseEnds(c) /\ browserQueue # <<>>) => HeadResumed]_vars

(* --------------------- maintenance and leased browsers ----------------- *)

\* an acquireBrowser call has taken browser b, from the available list or
\* from the wait list, and has not released it
TakenByCaller(b) ==
  \/ holders[b] # {}
  \/ \E c \in Callers : pc[c] = "acq_conf" /\ wr[c] = b

\* the maintenance tick starts the health probe of browser b in this step
ProbeStarts(b) ==
  /\ pc'[Maint] = "m_probe"
  /\ wr'[Maint] = b
  /\ (pc[Maint] # "m_probe" \/ wr[Maint] # b)

\* the recycleBrowser of the maintenance tick closes browser b in this step
MaintenanceCloses(b) ==
  /\ pc[Maint] = "rec_close"
  /\ wr[Maint] = b
  /\ b \in browsers
  /\ b \notin browsers'

\* C24: the maintenance tick probes and closes only browsers that no
\* acquireBrowser call has taken, the calls that are still configuring the
\* browser included.
C24_MaintenanceSparesTaken ==
  [][\A b \in BrowserIds :
       (ProbeStarts(b) \/ MaintenanceCloses(b)) => ~TakenByCaller(b)]_vars

(* -------------------- a maintenance tick run alone --------------------- *)

\* the callers take their steps between the ticks only: a tick, once
\* fired, runs to its end with no acquire or release step in between
IsolatedNext ==
  \/ pc[Maint] = "m_idle" /\ \E c \in Callers : CallAcquire(c)
  \/ pc[Maint] = "m_idle" /\ \E c \in Callers : CallRelease(c)
  \/ pc[Maint] = "m_idle" /\ PoolCallStep
  \/ MaintenanceStep

SpecTopUp == PoolOnlyInit /\ [][IsolatedNext]_vars

\* the watermark of the top-up (line 447)
MinAvailable == Min(MinAvailableCap, MaxBrowsers)

\* the tick decides in this step to top the pool up
TopUpBegins == pc[Maint] # "m_topup" /\ pc'[Maint] = "m_topup"

\* the top-up loop creates a browser in this step
TopUpCreates == pc[Maint] = "m_topup" /\ browsers' # browsers

\* the top-up loop ends in this step
TopUpEnds == pc[Maint] = "m_topup" /\ pc'[Maint] = "m_idle"

\* C25: a top-up that runs alone begins only with fewer than
\* min(3, maxBrowsers) available browsers and fewer than maxBrowsers
\* browsers in all, creates no more browsers than the available list is
\* short of min(3, maxBrowsers), and ends with at most maxBrowsers browsers.
C25_TopUpWithinLimits ==
  [][/\ TopUpBegins =>
          /\ Len(availableBrowsers') < MinAvailable
          /\ Size(browsers') < MaxBrowsers
          /\ mToCreate' <= MinAvailable - Len(availableBrowsers')
     /\ TopUpCreates => Len(availableBrowsers') <= MinAvailable
     /\ TopUpEnds => Size(browsers') <= MaxBrowsers]_vars

(* ------------------- a createBrowser that fails ------------------------ *)

\* number of environment failures in the runs with failing launches
LaunchFaults == 2

\* a running pool in whose run LaunchFaults failures may occur
InitLaunch == PoolStart(MaxFaults - LaunchFaults, Fresh) /\ SchedInit

LaunchNext ==
  \/ \E c \in ShutdownCallers : CallAcquire(c)
  \/ \E c \in ShutdownCallers : CallRelease(c)
  \/ \E c \in ShutdownCallers : acquireCreated(c)
  \/ \E c \in ShutdownCallers : acquireConfigured(c)
  \/ \E c \in ShutdownCallers, aged \in BOOLEAN : releaseCleared(c, aged)
  \/ \E p \in Procs : closeBrowserDone(p)
  \/ \E p \in Procs : recycleCreated(p)
  \/ MaintenanceStep

SpecLaunch == InitLaunch /\ [][LaunchNext]_vars

\* the acquireBrowser call of caller c starts its createBrowser in this step
CreateStarts(c) == pc[c] = "idle" /\ pc'[c] = "acq_create"

\* the createBrowser of the acquireBrowser call of caller c fails in this
\* step
CreateFails(c) == pc[c] = "acq_create" /\ pc'[c] = "idle"

TerminalStatuses == {"completed", "failed"}

\* C27: cancelTask(id) on a task whose stored status is COMPLETED or
\* FAILED leaves the stored status of that task as it was.
C27_CancelTerminalNoOp ==
  [][\A id \in TaskIds :
       (Calls("cancelTask") /\ ret'.id = id /\ id \in DOMAIN db
          /\ db[id].status \in TerminalStatuses)
         => db'[id].status = db[id].status]_vars


(* ------------------- the fixed-delay schedule in time ------------------ *)

\* scheduleTask, case 'scheduled' (lines 233-236): the delay handed to
\* queue.add
scheduledDelay(scheduledFor, now) == scheduledFor - now

\* scheduleTask(task) for a task scheduled for the time scheduledFor,
\* called at the current time; Bull holds the job back when the delay is
\* positive
scheduleScheduled(t, scheduledFor) ==
  /\ scheduleTask(t, "scheduled", scheduledDelay(scheduledFor, clock) > 0)
  /\ timed' = [phase |-> "added", task |-> t, scheduledFor |-> scheduledFor,
               now |-> clock,
               delay |-> scheduledDelay(scheduledFor, clock)]

\* createTask of a valid task with schedule {type: 'scheduled',
\* scheduledFor} (lines 95-137)
createScheduled(type, scheduledFor) ==
  /\ TaskId(nextTask + 1) \in DOMAIN db
  /\ nextTask' = nextTask + 1
  /\ db' = [db EXCEPT ![TaskId(nextTask + 1)] =
              [status |-> "pending", type |-> type, sched |-> "scheduled",
               attempts |-> 0, error |-> "none"]]
  /\ scheduleScheduled(TaskId(nextTask + 1), scheduledFor)
  /\ UNCHANGED <<poolVars, sessVars, lifeVars, utilVars, lastAcq, wk, hist, clock,
                 win, ret, events, bulk>>

\* retryTask(taskId) on a failed task scheduled for a time
\* (lines 172-195): the record keeps its scheduledFor
retryScheduled(t) ==
  /\ db[t].status = "failed"
  /\ timed.task = t
  /\ db' = [db EXCEPT ![t].status = "pending", ![t].attempts = 0]
  /\ scheduleScheduled(t, timed.scheduledFor)
  /\ UNCHANGED <<poolVars, sessVars, lifeVars, utilVars, lastAcq, wk, nextTask, hist,
                 clock, win, ret, events, bulk>>

\* the delay of the job added last is over
scheduledDelayElapsed(j) ==
  /\ jobs[j].task = timed.task
  /\ clock >= timed.now + timed.delay
  /\ delayElapsed(j)

TimedNext ==
  \/ \E type \in TaskTypes, scheduledFor \in 0..MaxTime :
       createScheduled(type, scheduledFor)
  \/ \E t \in TaskIds : retryScheduled(t)
  \/ tick
  \/ \E j \in JobIds : scheduledDelayElapsed(j)
  \/ \E c \in Workers : takeJob(c)
  \/ \E c \in Workers : processStart(c)
  \/ \E c \in Workers : processNoProfile(c)
  \/ \E c \in Workers : workerAcquire(c)
  \/ \E c \in Workers : executorDone(c)
  \/ \E c \in Workers : workerRelease(c)
  \/ \E c \in Workers : processPersist(c)
  \/ \E c \in Workers : processFailed(c)
  \/ WorkerPoolStep

SpecTimed == Init /\ [][TimedNext]_vars

\* C28: the delay with which scheduleTask adds the job of a task
\* scheduled for a time is max(0, scheduledFor - now): the difference
\* when scheduledFor lies ahead, 0 and never negative when it has passed.
C28_DelayClamped ==
  timed.phase = "added"
    => timed.delay = Max(0, timed.scheduledFor - timed.now)


(* ------------------ the failed executions of a task -------------------- *)

\* this step ends an execution of processTask in its catch block
FailedExecution(c) == wk[c].phase = "failing" /\ wk'[c].phase = "free"

\* C29: the attempts stored with a task count its failed executions: an
\* execution that fails raises the stored attempts of its task by one.
C29_AttemptsCountFailures ==
  [][\A c \in Workers :
       FailedExecution(c)
         => db'[jobs[wk[c].job].task].attempts
              = db[jobs[wk[c].job].task].attempts + 1]_vars


\* this step ends a failed execution and emits 'task:failed' for its task
EmitsTaskFailed(c) ==
  /\ FailedExecution(c)
  /\ <<"task:failed", jobs[wk[c].job].task>> \in events'

\* C30: 'task:failed' is emitted for a task only by the execution that
\* exhausts the attempts of its job and stores FAILED, so at most once per
\* job added; a failed execution that Bull will retry emits no failure
\* event.
C30_FailedEventOnlyWhenExhausted ==
  [][\A c \in Workers :
       EmitsTaskFailed(c)
         => /\ lastAttempt(wk[c].job)
            /\ db'[jobs[wk[c].job].task].status = "failed"]_vars


(* --------------------- the delays between attempts --------------------- *)

\* the core, which the helper objects leave alone
coreVars ==
  <<poolVars, wk, schedRest, clock, win, ret, events, bulk, sessVars,
    lifeVars, lastAcq, timed>>

\* times are counted in units of 500 ms: Math.random() * 1000 is below
\* two units
JitterRange == 2

\* config.TASK_RETRY_DELAY (60000 ms) in units
TASK_RETRY_DELAY == 120

\* the constructor arguments tried: the defaults (3, 1000 ms, 30000 ms)
\* and smaller ones
StrategyAttempts == {2, 3, 4}
StrategyBaseDelays == {1, 2}
StrategyMaxDelays == {2, 4, 60}

Pow2(n) == IF n <= 0 THEN 1 ELSE 2 ^ n

\* ExponentialBackoffStrategy.getDelay (lines 258-266) with the value of
\* Math.random() * 1000 given
getDelay(baseDelay, maxDelay, attempt, jitter) ==
  Min(baseDelay * Pow2(attempt - 1), maxDelay) + jitter

\* ExponentialBackoffStrategy.shouldRetry (lines 246-256) for an error
\* that is not a client error
shouldRetry(maxAttempts, attempt) == ~(attempt >= maxAttempts)

\* the backoff the queue is configured with (lines 42-45): type
\* 'exponential' of Bull with delay TASK_RETRY_DELAY, after attemptsMade
\* failed attempts; no cap and no jitter are configured
jobBackoffDelay(attemptsMade) == (Pow2(attemptsMade) - 1) * TASK_RETRY_DELAY

\* new ExponentialBackoffStrategy(maxAttempts, baseDelay, maxDelay)
newStrategy(maxAttempts, baseDelay, maxDelay) ==
  /\ strategy.phase = "none"
  /\ strategy' = [strategy EXCEPT !.phase = "made",
                                  !.maxAttempts = maxAttempts,
                                  !.baseDelay = baseDelay,
                                  !.maxDelay = maxDelay]
  /\ UNCHANGED <<coreVars, boot, gshut, limiter, breaker>>

\* the attempt made last has failed: the caller asks shouldRetry and waits
\* for getDelay before the next one
strategyRetry(jitter) ==
  /\ strategy.phase = "made"
  /\ LET attempt == Len(strategy.delays) + 1
     IN /\ shouldRetry(strategy.maxAttempts, attempt)
        /\ strategy' =
             [strategy EXCEPT !.delays =
                Append(@, getDelay(strategy.baseDelay, strategy.maxDelay,
                                   attempt, jitter))]
  /\ UNCHANGED <<coreVars, boot, gshut, limiter, breaker>>

\* an attempt of the job has failed and Bull delays the job for the next
jobRetry ==
  /\ Len(strategy.jobDelays) + 1 < TASK_RETRY_ATTEMPTS
  /\ strategy' =
       [strategy EXCEPT !.jobDelays =
          Append(@, jobBackoffDelay(Len(strategy.jobDelays) + 1))]
  /\ UNCHANGED <<coreVars, boot, gshut, limiter, breaker>>

BackoffNext ==
  \/ \E maxAttempts \in StrategyAttempts, baseDelay \in StrategyBaseDelays,
        maxDelay \in StrategyMaxDelays :
       newStrategy(maxAttempts, baseDelay, maxDelay)
  \/ \E jitter \in 0..(JitterRange - 1) : strategyRetry(jitter)
  \/ jobRetry

SpecBackoff == Init /\ [][BackoffNext]_vars

\* the delays grow from each attempt to the next
StrictlyIncreasing(ds) == \A i \in 1..(Len(ds) - 1) : ds[i] < ds[i + 1]

MaxRestarts == 1

\* the statuses loadPendingTasks asks for (line 646)
PendingStatuses == {"pending", "scheduled"}

\* the process ends while no job is being processed and a new one calls
\* start() (lines 52-73) on the same database and the same Redis queue:
\* queue.process is registered and loadPendingTasks reads the tasks to
\* schedule (lines 645-647)
restart ==
  /\ boot.phase = "up"
  /\ boot.n < MaxRestarts
  /\ \A c \in Workers : wk[c] = FreeWorker /\ pc[c] = "idle"
  /\ boot' = [phase |-> "loading",
              todo |-> {t \in DOMAIN db : db[t].status \in PendingStatuses},
              n |-> boot.n + 1]
  /\ UNCHANGED <<coreVars, strategy, gshut, limiter, breaker>>

\* loadPendingTasks: one turn of the loop (lines 649-651), scheduleTask
\* for a task that was read
loadPendingTask(t) ==
  /\ boot.phase = "loading"
  /\ t \in boot.todo
  /\ \E later \in BOOLEAN :
       /\ (db[t].sched \in {"immediate", "cron"} => ~later)
       /\ scheduleTask(t, db[t].sched, later)
  /\ boot' = [boot EXCEPT !.todo = @ \ {t}]
  /\ UNCHANGED <<poolVars, wk, db, nextTask, hist, clock, win, ret, events,
                 bulk, sessVars, lifeVars, lastAcq, timed, strategy, gshut,
                 limiter, breaker>>

\* loadPendingTasks has scheduled every task it read; start() returns
loadPendingDone ==
  /\ boot.phase = "loading"
  /\ boot.todo = {}
  /\ boot' = [boot EXCEPT !.phase = "up"]
  /\ UNCHANGED <<coreVars, strategy, gshut, limiter, breaker>>

RestartNext ==
  \/ \E type \in TaskTypes : createTask(type, "immediate")
  \/ restart
  \/ \E t \in TaskIds : loadPendingTask(t)
  \/ loadPendingDone
  \/ WorkStep

SpecRestart == Init /\ [][RestartNext]_vars

\* the jobs of task t that the queue holds for execution
Admitted(t) ==
  {j \in JobIds : jobs[j].task = t
                    /\ jobs[j].state \in {"waiting", "delayed", "active"}}

\* C32: the queue never holds more than one job of a task for execution;
\* in particular start() after a restart adds no second job for a PENDING
\* task whose job is still in the queue.
C32_NoDuplicateAdmission ==
  \A t \in TaskIds : Cardinality(Admitted(t)) <= 1


(* ------------------------- when FAILED is stored ----------------------- *)

\* this step stores FAILED for task t
StoresFailed(t) == db[t].status # "failed" /\ db'[t].status = "failed"

\* C33: FAILED is stored for a task only by the execution that fails as
\* the last of the TASK_RETRY_ATTEMPTS attempts of its job: an execution
\* with an unsuccessful result does not store FAILED while attempts remain.
C33_FailedOnlyAfterAllAttempts ==
  [][\A t \in TaskIds :
       StoresFailed(t)
         => \E c \in Workers :
              /\ wk[c].phase # "free"
              /\ jobs[wk[c].job].task = t
              /\ jobs[wk[c].job].attemptsMade + 1 = TASK_RETRY_ATTEMPTS]_vars


(* ----------------------- RUNNING and the workers ----------------------- *)

\* the tasks whose stored status is RUNNING
Running == {t \in TaskIds : db[t].status = "running"}

\* C34: a task whose stored status is RUNNING is being executed by a
\* worker; so no more tasks are RUNNING than there are workers, also while
\* a failed job waits for its next attempt.
C34_RunningIsExecuting ==
  /\ \A t \in Running : PickedUp(t)
  /\ Cardinality(Running) <= NumWorkers


(* ------------------- shutdown and the waiting callers ------------------ *)

\* the calls of every caller and the shutdown; the maintenance timer does
\* not fire and no browser has reached the age or the count for
\* recycling, so the pool, full from the start, creates no browser
DrainNext ==
  \/ \E c \in Callers : CallAcquire(c)
  \/ \E c \in Callers : CallRelease(c)
  \/ \E c \in Callers : acquireConfigured(c)
  \/ \E c \in Callers : releaseCleared(c, FALSE)
  \/ ShutdownStep

SpecDrain == InitShutdown /\ [][DrainNext]_vars

\* the callers suspended in waitForBrowser
Suspended == {c \in Callers : pc[c] = "acq_wait"}

\* C35: once shutdown() has returned no caller is suspended in
\* acquireBrowser: every caller that was on the wait list has been resumed,
\* with a browser or with an error.
C35_ShutdownResumesWaiters ==
  shut.phase = "done" => Suspended = {} /\ browserQueue = <<>>


(* -------------------- acquireBrowser during shutdown ------------------- *)

\* C36: an acquireBrowser call that starts after shutdown() has started
\* throws a BrowserError and changes nothing in the pool: it takes no
\* browser from the available list, creates none and adds no entry to the
\* wait list.
C36_RefusedWhileShuttingDown ==
  [][\A c \in Callers :
       (isShuttingDown /\ CallAcquire(c))
         => /\ lastAcq'[c].out = "ShuttingDown"
            /\ pc'[c] = "idle"
            /\ mine'[c] = NoBrowser
            /\ UNCHANGED <<browsers, availableBrowsers, browserQueue, inUse,
                           nextId>>]_vars

\* a call made during the shutdown has been refused
C36_Witness ==
  \E c \in Callers :
    /\ isShuttingDown
    /\ lastAcq[c].out = "ShuttingDown"
    /\ pc[c] = "idle"
    /\ availableBrowsers # <<>>


(* ------------------ acquireBrowser fails while configuring ------------- *)

\* this step ends the acquireBrowser call of c with the error thrown by
\* configureBrowserForProfile
ConfigureFails(c) ==
  pc[c] = "acq_conf" /\ pc'[c] = "idle" /\ mine'[c] = NoBrowser

\* C37: an acquireBrowser call that fails after it obtained a browser,
\* because configuring it for the profile throws, does not leak the
\* browser: after the failure the browser is on the available list again,
\* or closed and removed from the pool.
C37_NoLeakOnConfigureFailure ==
  [][\A c \in Callers :
       ConfigureFails(c)
         => \/ wr[c] \in SeqToSet(availableBrowsers')
            \/ wr[c] \notin browsers']_vars


(* --------------------------- GracefulShutdown -------------------------- *)

\* the handlers registered in a run of the model and the priorities given
\* (0 for a handler registered with priority 0, which `||` replaces)
HandlerNames == {"a", "b", "c"}
HandlerPriorities == {0, 10, 50}

\* number of shutdown() calls in a run
MaxShutdownCalls == 2

\* handler.priority || 100 (line 21)
DefaultPriority == 100
effectivePriority(p) == IF p = 0 THEN DefaultPriority ELSE p

\* push and sort (lines 18-25): the sort is stable, so the new handler
\* comes to stand behind those of a priority not above its own
RECURSIVE insertSorted(_, _)
insertSorted(hs, h) ==
  IF hs = <<>> THEN <<h>>
  ELSE IF Head(hs).priority <= h.priority
    THEN <<Head(hs)>> \o insertSorted(Tail(hs), h)
    ELSE <<h>> \o hs

\* GracefulShutdown.register (lines 17-26)
register(g, name, priority) ==
  [g EXCEPT !.handlers =
     insertSorted(@, [name |-> name,
                      priority |-> effectivePriority(priority)])]

\* executeShutdown, the head of the for-of loop (line 44): the iterator
\* reads the array at its index, or the run ends; the handler is called
\* and awaited (lines 48-52)
loopHead(g) ==
  IF g.i < Len(g.handlers)
    THEN [g EXCEPT !.i = @ + 1,
                   !.cur = g.handlers[g.i + 1].name,
                   !.active = @ \cup {g.handlers[g.i + 1].name},
                   !.ran = Append(@, g.handlers[g.i + 1])]
    ELSE [g EXCEPT !.phase = "done", !.cur = ""]

\* GracefulShutdown.shutdown (lines 28-39): a call during a run returns the
\* promise of that run; the first call starts executeShutdown, which runs
\* up to its first await
shutdownCalled(g) ==
  IF g.isShuttingDown
    THEN [g EXCEPT !.calls = @ + 1]
    ELSE loopHead([g EXCEPT !.isShuttingDown = TRUE, !.phase = "running",
                            !.runs = @ + 1, !.calls = @ + 1])

Names(hs) == {hs[k].name : k \in 1..Len(hs)}

\* registerShutdownHandler(name, handler, options) (lines 90-100)
registerShutdownHandler(name, priority) ==
  /\ name \notin Names(gshut.handlers)
  /\ gshut' = register(gshut, name, priority)
  /\ UNCHANGED <<coreVars, strategy, boot, limiter, breaker>>

\* shutdownManager.shutdown(signal), from a signal handler or from
\* gracefulShutdown() without cleanup (lines 107, 119)
managerShutdown ==
  /\ gshut.calls < MaxShutdownCalls
  /\ gshut' = shutdownCalled(gshut)
  /\ UNCHANGED <<coreVars, strategy, boot, limiter, breaker>>

\* gracefulShutdown(cleanup) (lines 102-108): the cleanup is registered
\* with priority 50, then shutdown is called
gracefulShutdown(name) ==
  /\ gshut.calls < MaxShutdownCalls
  /\ name \notin Names(gshut.handlers)
  /\ gshut' = shutdownCalled(register(gshut, name, 50))
  /\ UNCHANGED <<coreVars, strategy, boot, limiter, breaker>>

\* the handler awaited settles, resolved or rejected (lines 54-58), and the
\* loop goes on
handlerSettles ==
  /\ gshut.phase = "running"
  /\ gshut.cur \in gshut.active
  /\ gshut' = loopHead([gshut EXCEPT !.active = @ \ {gshut.cur}])
  /\ UNCHANGED <<coreVars, strategy, boot, limiter, breaker>>

\* the timeout of executeWithTimeout wins the race (lines 72-79): the
\* error is logged and the loop goes on while the handler is still at work
handlerTimesOut ==
  /\ gshut.phase = "running"
  /\ gshut.cur \in gshut.active
  /\ gshut' = loopHead(gshut)
  /\ UNCHANGED <<coreVars, strategy, boot, limiter, breaker>>

\* a handler that was timed out settles
lateHandlerSettles(name) ==
  /\ name \in gshut.active
  /\ name # gshut.cur
  /\ gshut' = [gshut EXCEPT !.active = @ \ {name}]
  /\ UNCHANGED <<coreVars, strategy, boot, limiter, breaker>>

GracefulNext ==
  \/ \E name \in HandlerNames, priority \in HandlerPriorities :
       registerShutdownHandler(name, priority)
  \/ managerShutdown
  \/ \E name \in HandlerNames : gracefulShutdown(name)
  \/ handlerSettles
  \/ handlerTimesOut
  \/ \E name \in HandlerNames : lateHandlerSettles(name)

SpecGraceful == Init /\ [][GracefulNext]_vars

\* C38: in a GracefulShutdown run every registered handler is executed at
\* most once and the handlers run one after another in ascending order of
\* priority, also when shutdown() is called again during the run, which
\* starts no second run, and when a handler is registered during the run.
C38_HandlersOnceInOrder ==
  /\ gshut.runs <= 1
  /\ \A k, l \in 1..Len(gshut.ran) :
       k < l => /\ gshut.ran[k].name # gshut.ran[l].name
                /\ gshut.ran[k].priority <= gshut.ran[l].priority
  /\ Cardinality(gshut.active) <= 1


(* ------------------------------ RateLimiter ---------------------------- *)

\* the values of maxConcurrent tried
LimiterSizes == {1, 2}

\* new RateLimiter(maxConcurrent) (lines 249-252)
newLimiter(n) ==
  /\ limiter.maxConcurrent = 0
  /\ limiter' = [limiter EXCEPT !.maxConcurrent = n]
  /\ UNCHANGED <<coreVars, strategy, boot, gshut, breaker>>

\* execute, the while loop and the increment (lines 255-259): the caller
\* pushes its resolve and suspends, or takes a slot and calls fn
enterOrWait(l, c) ==
  IF l.running >= l.maxConcurrent
    THEN [l EXCEPT !.queue = Append(@, c), !.at[c] = "waiting"]
    ELSE [l EXCEPT !.running = @ + 1, !.at[c] = "running"]

\* a call execute(fn) (line 254)
limiterExecute(c) ==
  /\ limiter.maxConcurrent > 0
  /\ limiter.at[c] = "out"
  /\ limiter' = enterOrWait(limiter, c)
  /\ UNCHANGED <<coreVars, strategy, boot, gshut, breaker>>

\* the continuation of a caller whose resolve was called: the loop tests
\* running again (line 255)
limiterResume(c) ==
  /\ limiter.at[c] = "woken"
  /\ limiter' = enterOrWait(limiter, c)
  /\ UNCHANGED <<coreVars, strategy, boot, gshut, breaker>>

\* fn has settled and the minimum time is over: the finally block
\* (lines 272-276) gives the slot back and calls the resolve at the head of
\* the queue
limiterFinish(c) ==
  /\ limiter.at[c] = "running"
  /\ limiter' =
       [limiter EXCEPT
          !.running = @ - 1,
          !.queue = IF @ = <<>> THEN @ ELSE Tail(@),
          !.at = [d \in LimiterCallers |->
                    IF d = c THEN "out"
                    ELSE IF limiter.queue # <<>> /\ d = Head(limiter.queue)
                      THEN "woken"
                    ELSE @[d]]]
  /\ UNCHANGED <<coreVars, strategy, boot, gshut, breaker>>

LimiterNext ==
  \/ \E n \in LimiterSizes : newLimiter(n)
  \/ \E c \in LimiterCallers : limiterExecute(c)
  \/ \E c \in LimiterCallers : limiterResume(c)
  \/ \E c \in LimiterCallers : limiterFinish(c)

\* every continuation that is due runs, and every function passed to
\* execute terminates; nobody is obliged to call execute
LimiterFair ==
  \A c \in LimiterCallers :
    WF_vars(limiterResume(c)) /\ WF_vars(limiterFinish(c))

SpecLimiter == Init /\ [][LimiterNext]_vars /\ LimiterFair

\* the callers whose function is running
RunningNow == {c \in LimiterCallers : limiter.at[c] = "running"}

\* C39: for a RateLimiter with maxConcurrent >= 1, under any interleaving
\* of execute() calls and completions no more than maxConcurrent functions
\* run at once, and every execute() call eventually runs its function,
\* provided every function terminates.
C39_BoundedAndEveryCallRuns ==
  /\ [](Cardinality(RunningNow) <= limiter.maxConcurrent)
  /\ \A c \in LimiterCallers :
       (limiter.at[c] = "waiting") ~> (limiter.at[c] = "running")


(* -------------------------- CircuitBreakerStrategy --------------------- *)

\* the constructor arguments tried, the timeout in steps of the clock
BreakerThresholds == {1, 2}
BreakerTimeouts == {1, 2}

\* the failures counted in a run
MaxBreakerFailures == 3

\* new CircuitBreakerStrategy(threshold, timeout) (lines 269-277)
newBreaker(threshold, timeout) ==
  /\ breaker.state = "none"
  /\ breaker' = [breaker EXCEPT !.threshold = threshold,
                                !.timeout = timeout,
                                !.state = "closed"]
  /\ UNCHANGED <<coreVars, strategy, boot, gshut, limiter>>

\* a test that lets the breaker go half-open at the limit already
timedOutAtLimit(b, now) == now - b.lastFailureTime >= b.timeout

\* the test of line 283
timedOut(b, now) == now - b.lastFailureTime > b.timeout

\* shouldRetry from line 292 on: the error is counted when it is a
\* BaseError that is not operational
countFailure(b, now, counted) ==
  IF counted
    THEN IF b.failures + 1 >= b.threshold
           THEN [b EXCEPT !.failures = @ + 1, !.lastFailureTime = now,
                          !.state = "open", !.ret = FALSE, !.held = FALSE]
           ELSE [b EXCEPT !.failures = @ + 1, !.lastFailureTime = now,
                          !.ret = TRUE, !.held = FALSE]
    ELSE [b EXCEPT !.ret = TRUE, !.held = FALSE]

\* CircuitBreakerStrategy.shouldRetry (lines 279-301) at the time now;
\* ret is what it returns, held whether it returned at line 286
shouldRetryAt(b, now, counted) ==
  IF b.state = "open"
    THEN IF timedOut(b, now)
           THEN countFailure([b EXCEPT !.state = "half-open"], now, counted)
           ELSE [b EXCEPT !.ret = FALSE, !.held = TRUE]
    ELSE countFailure(b, now, counted)

\* a call shouldRetry(error, attempt)
breakerShouldRetry(counted) ==
  /\ breaker.state # "none"
  /\ counted => breaker.failures < MaxBreakerFailures
  /\ breaker' = shouldRetryAt(breaker, clock, counted)
  /\ UNCHANGED <<coreVars, strategy, boot, gshut, limiter>>

\* reset() (lines 307-310)
breakerReset ==
  /\ breaker.state # "none"
  /\ breaker' = [breaker EXCEPT !.failures = 0, !.state = "closed"]
  /\ UNCHANGED <<coreVars, strategy, boot, gshut, limiter>>

BreakerNext ==
  \/ \E threshold \in BreakerThresholds, timeout \in BreakerTimeouts :
       newBreaker(threshold, timeout)
  \/ \E counted \in BOOLEAN : breakerShouldRetry(counted)
  \/ breakerReset
  \/ tick

SpecBreaker == Init /\ [][BreakerNext]_vars

\* the breaker is open and its timeout has not passed
HoldsOpen ==
  /\ breaker.state = "open"
  /\ clock - breaker.lastFailureTime <= breaker.timeout

\* C40: the state is 'open' only if the failure count has reached the
\* threshold; while the state is 'open' and no more than timeout has
\* passed since the last counted failure, shouldRetry returns false and
\* changes neither the state nor the failure count; reset() brings the
\* breaker back to 'closed' with failure count 0.
C40_BreakerOpenHoldsAndResets ==
  /\ [](breaker.state = "open" => breaker.failures >= breaker.threshold)
  /\ [][(HoldsOpen /\ \E counted \in BOOLEAN : breakerShouldRetry(counted))
          => /\ breaker'.ret = FALSE
             /\ breaker'.state = "open"
             /\ breaker'.failures = breaker.failures]_vars
  /\ [][breakerReset
          => breaker'.state = "closed" /\ breaker'.failures = 0]_vars

\* an open breaker has refused a retry at the very limit of its timeout
C40_Witness ==
  /\ breaker.state = "open"
  /\ breaker.held
  /\ breaker.failures >= breaker.threshold
  /\ clock - breaker.lastFailureTime = breaker.timeout

====
